---- MODULE Spec2Model ----
(***************************************************************************)
(* Capability table of the exokernel (srv/capability/resourse.rs).         *)
(*                                                                         *)
(* RO_DATA (the slot array), WR_DATA (free list, indices, delegation       *)
(* graph, borrow states, pending revokes), the per-CPU cache of CPU 0      *)
(* (cpu_id() is the constant 0) and CREATION_SEQ are the state.  Every     *)
(* function of the source is an operator on a record                       *)
(*     s = [ro |-> slot array, wr |-> WriteData, pc |-> per-CPU cache]     *)
(* and returns the new record together with the function's result.         *)
(*                                                                         *)
(* Spec      : every public operation runs to completion (one caller).     *)
(* BorrowSpec: the same, restricted to binding and the borrow protocol.    *)
(* ConcSpec  : operations of two threads interleave at the points where    *)
(*             the source holds neither WR_DATA nor RO_DATA.               *)
(* StaleSpec : a grant interleaved with revoke and bind, two resources.    *)
(* ScopeSpec : ScopeKind::can_borrow_from on every pair of scopes.         *)
(* TransferSpec: transfer_resource from capabilities of different rights.  *)
(* CacheSpec : binds and revokes of pairs that share a per-CPU cache entry.*)
(* VerifySpec: verify_capability_fast interleaved with bind and revoke.    *)
(* LockSpec  : the lock events of every public function, two threads.      *)
(* RaceSpec  : borrows interleaved with bind and revoke, two threads.      *)
(* PhysSpec  : alloc_raw and free_raw of srv/mm/physical.rs, one atomic    *)
(*             access per step, two threads.                               *)
(* AllocSpec : alloc_raw and free_raw run to completion, any arguments.    *)
(* PageSpec  : the ownership API (srv/libos_interface/ownership_api.rs),   *)
(*             one caller.                                                 *)
(* SharedSpec: SharedPage shared and dropped by two threads.               *)
(* OwnerSpec : the ways to an OwnedPage or SharedPage of an address.       *)
(* TableSpec : ResourceBorrowState under the requests of the borrow        *)
(*             transition table.                                           *)
(* BatchSpec : Allocator::alloc_pages of srv/mm/allocator.rs.              *)
(* GrantSpec : grants until a capability has MAX_CHILDREN_PER_CAP          *)
(*             children.                                                   *)
(***************************************************************************)
EXTENDS Integers, Sequences, FiniteSets, TLC

(* ------------------------------------------------------------------ *)
(* Bounds of the model                                                  *)
(* ------------------------------------------------------------------ *)

\* length of the slot table (8192 in the source, scaled down)
MAX_CAPABILITIES == 4
\* children per capability (32 in the source, scaled down)
MAX_CHILDREN_PER_CAP == 2
\* Spec: number of CREATION_SEQ values handed out (bounds the number of
\* binds) and cap on the shared borrows the callers hold on one resource
MaxSeq == 3
MaxShared == 1
\* BorrowSpec: the same two, and the cap on frozen_count (the source
\* saturates at u32::MAX)
BorrowMaxSeq == 2
BorrowMaxShared == 2
BorrowMaxFrozen == 2
\* ConcSpec: number of CREATION_SEQ values handed out
ConcMaxSeq == 3

\* sentinel of an empty per-CPU cache entry (u32::MAX in the source; any
\* value that is no slot index)
INV == -1
\* shared-borrow cap (u16::MAX = 65535 in the source, scaled down)
U16_MAX == 3
\* largest frozen_count (u32::MAX in the source, scaled down)
U32_MAX == 3
\* number of entries of one per-CPU cache
CACHE_SLOTS == 16

Pids == {1, 2, 3}
Tids == {7, 8}
Indices == 0 .. (MAX_CAPABILITIES - 1)

(* ------------------------------------------------------------------ *)
(* caps: a bitfield is the set of its bits                              *)
(* ------------------------------------------------------------------ *)
READ == "READ"
WRITE == "WRITE"
EXECUTE == "EXECUTE"
MAP == "MAP"
DELETE == "DELETE"
TRANSFER == "TRANSFER"
GRANT == "GRANT"
REVOKE == "REVOKE"
ALL == {READ, WRITE, EXECUTE, MAP, DELETE, TRANSFER, GRANT, REVOKE}
RW == {READ, WRITE}
RO == {READ}
TRANSFERABLE_MASK == {READ, WRITE, EXECUTE, MAP, DELETE}

(* ------------------------------------------------------------------ *)
(* ResourceId, ScopeKind                                                *)
(* ------------------------------------------------------------------ *)
\* #[repr(u8)] discriminant of a ResourceType
ResourceTypeCode(typ) ==
    CASE typ = "PhysicalPage" -> 0
      [] typ = "VirtualMemory" -> 1
      [] typ = "IoPort" -> 2
      [] typ = "Interrupt" -> 3
      [] typ = "DmaChannel" -> 4
      [] typ = "Device" -> 5
      [] typ = "IpcChannel" -> 6
      [] OTHER -> 255

ResourceId(typ, id) == [typ |-> typ, id |-> id]
\* ResourceId::from_page_addr(0)
Page0 == ResourceId("PhysicalPage", 0)
Rids == {Page0}
\* ResourceId::from_page_addr(16): its fast_hash has the low four bits of
\* Page0's, so (pid, Page0) and (pid, Page16) share a per-CPU cache entry
Page16 == ResourceId("PhysicalPage", 16)
\* The pages of the physical allocator's region (srv/mm/physical.rs):
\* PAGE_SIZE, the word geometry of the bitmap (64-bit words and 1024 words
\* in the source, scaled down) and the arguments of init.
PAGE_SIZE == 4096
\* bits of a bitmap word (usize) and number of words
WORD_BITS == 2
BITMAP_SIZE == 2
MAX_PAGES == BITMAP_SIZE * WORD_BITS
\* the arguments of init: the region's base and its size in pages
PhysBase == 4096
TotalPages == 3
\* usize::MAX
FullWord == 0 .. (WORD_BITS - 1)
\* Option::None of an address
NoAddr == -1

PageAddrs == {PhysBase + i * PAGE_SIZE : i \in 0 .. (TotalPages - 1)}
\* ResourceId::from_page_addr of the pages of the region
PageRids == {ResourceId("PhysicalPage", a) : a \in PageAddrs}

AllRids == {Page0, Page16} \cup PageRids

Permanent == [k |-> "Permanent", t |-> 0, s |-> 0]
Process == [k |-> "Process", t |-> 0, s |-> 0]
Thread(t) == [k |-> "Thread", t |-> t, s |-> 0]
Syscall(t, q) == [k |-> "Syscall", t |-> t, s |-> q]
Scopes == {Permanent, Process, Thread(7), Syscall(7, 1)}
\* the borrow scopes the callers ask for: Process is refused by a Thread- or
\* Syscall-scoped capability, Syscall(7, 1) is contained in every scope of Scopes
BorrowScopes == {Process, Syscall(7, 1)}

can_borrow_from(self, owner) ==
    CASE owner.k = "Permanent" -> TRUE
      [] owner.k = "Process" -> TRUE
      [] self.k = "Thread" /\ owner.k = "Thread" -> self.t = owner.t
      [] self.k = "Syscall" /\ owner.k = "Thread" -> self.t = owner.t
      [] self.k = "Syscall" /\ owner.k = "Syscall" -> self.t = owner.t /\ self.s = owner.s
      [] OTHER -> FALSE

(* ------------------------------------------------------------------ *)
(* u32 generation, kept at full width as two 16-bit halves              *)
(* ------------------------------------------------------------------ *)
Gen0 == [hi |-> 0, lo |-> 0]
\* u32::wrapping_add(1)
wrapping_add1(g) ==
    IF g.lo = 65535
    THEN [hi |-> (g.hi + 1) % 65536, lo |-> 0]
    ELSE [hi |-> g.hi, lo |-> g.lo + 1]

(* ------------------------------------------------------------------ *)
(* Per-CPU cache slotting.  Only the low four bits of the 64-bit hash   *)
(* are used, and the low four bits of a wrapping product are the low    *)
(* four bits of the product of the low four bits (0x...7c15 mod 16 = 5) *)
(* ------------------------------------------------------------------ *)
RECURSIVE XorBits(_, _, _)
XorBits(a, b, n) ==
    IF n = 0 THEN 0
    ELSE (IF (a % 2) # (b % 2) THEN 1 ELSE 0) + 2 * XorBits(a \div 2, b \div 2, n - 1)

fast_hash(rid) == XorBits((rid.id * 5) % 16, ResourceTypeCode(rid.typ) % 16, 4)
slot(pid, rid_hash) == XorBits((pid * 5) % 16, rid_hash, 4)

(* ------------------------------------------------------------------ *)
(* Handles and slot entries                                             *)
(* ------------------------------------------------------------------ *)
CapabilityHandle(index, generation, scope, creation_order) ==
    [index |-> index, generation |-> generation, scope |-> scope,
     creation_order |-> creation_order]
NoHandle == CapabilityHandle(INV, Gen0, Permanent, 0)

CapabilityEntry_empty ==
    [resource_id |-> ResourceId("Custom", 0), owner_pid |-> 0, capabilities |-> {},
     generation |-> Gen0, state |-> "Free", creation_order |-> 0, scope |-> Permanent]

ResourceBorrowState_new == [shared |-> <<>>, exclusive |-> <<>>, frozen_count |-> 0]

\* a map entry that is absent reads as the empty list
EmptyLists(D) == [d \in D |-> <<>>]

WriteData_init ==
    [free_slots |-> [i \in 1 .. MAX_CAPABILITIES |-> MAX_CAPABILITIES - i],
     quick_cache |-> EmptyLists(Pids \X AllRids),
     process_caps |-> EmptyLists(Pids),
     thread_caps |-> EmptyLists(Tids),
     syscall_caps |-> EmptyLists(Tids \X {1}),
     children_of |-> EmptyLists(Indices),
     parent_of |-> << >>,
     resource_borrows |-> << >>,
     pending_revoke |-> EmptyLists(AllRids),
     used_count |-> 0]

PerCpuCache_new == [i \in 0 .. (CACHE_SLOTS - 1) |-> INV]

(* ------------------------------------------------------------------ *)
(* Sequence helpers (Vec operations used by the source)                 *)
(* ------------------------------------------------------------------ *)
Range(q) == {q[i] : i \in DOMAIN q}
\* Vec::retain(|&x| x != idx)
retain_ne(q, idx) == SelectSeq(q, LAMBDA x : x # idx)
\* Vec::swap_remove(pos): the last element takes the place of the removed one
swap_remove(q, pos) ==
    [i \in 1 .. (Len(q) - 1) |-> IF i = pos THEN q[Len(q)] ELSE q[i]]
\* Iterator::position: the first of the positions that satisfy the test,
\* 0 for None
position(hits) ==
    IF hits = {} THEN 0 ELSE CHOOSE i \in hits : \A j \in hits : i <= j
\* BTreeMap::insert / entry().or_insert on a map kept as a function
MapPut(f, k, v) == [x \in (DOMAIN f) \cup {k} |-> IF x = k THEN v ELSE f[x]]
\* BTreeMap::remove
MapDel(f, k) == [x \in (DOMAIN f) \ {k} |-> f[x]]

(* ------------------------------------------------------------------ *)
(* ResourceBorrowState                                                  *)
(* ------------------------------------------------------------------ *)
has_active(bs) == bs.exclusive # <<>> \/ bs.shared # <<>> \/ bs.frozen_count > 0

BorrowEntry(cap_idx, tid) == [cap |-> cap_idx, tid |-> tid]
ExclusiveEntry(cap_idx, tid, scope) == [cap |-> cap_idx, tid |-> tid, scope |-> scope]

try_shared(bs, cap_idx, tid, caps_bits) ==
    IF READ \notin caps_bits THEN [bs |-> bs, res |-> "PermissionDenied"]
    ELSE IF bs.exclusive # <<>> /\ (bs.frozen_count = 0 \/ bs.exclusive[1].tid # tid)
    THEN [bs |-> bs, res |-> "BorrowConflict"]
    ELSE IF \E i \in DOMAIN bs.shared : bs.shared[i] = BorrowEntry(cap_idx, tid)
    THEN [bs |-> bs, res |-> "AlreadyBorrowed"]
    ELSE IF Len(bs.shared) >= U16_MAX THEN [bs |-> bs, res |-> "TooManyBorrows"]
    ELSE [bs |-> [bs EXCEPT !.shared = Append(@, BorrowEntry(cap_idx, tid))], res |-> "Ok"]

\* the rights an exclusive borrow of a resource of type rty requires
exclusive_required(rty) ==
    IF rty \in {"PhysicalPage", "VirtualMemory"} THEN {WRITE, MAP}
    ELSE IF rty \in {"Device", "IoPort"} THEN {WRITE}
    ELSE {WRITE}

try_exclusive(bs, cap_idx, tid, scope, caps_bits, rty) ==
    IF ~(exclusive_required(rty) \subseteq caps_bits)
    THEN [bs |-> bs, res |-> "PermissionDenied"]
    ELSE IF bs.exclusive # <<>> \/ bs.shared # <<>> \/ bs.frozen_count > 0
    THEN [bs |-> bs, res |-> "BorrowConflict"]
    ELSE [bs |-> [bs EXCEPT !.exclusive = <<ExclusiveEntry(cap_idx, tid, scope)>>],
          res |-> "Ok"]

bs_release_shared(bs, cap_idx, tid) ==
    LET pos == position({i \in DOMAIN bs.shared : bs.shared[i] = BorrowEntry(cap_idx, tid)})
    IN IF pos # 0
       THEN [bs |-> [bs EXCEPT !.shared = swap_remove(@, pos)], res |-> "Ok"]
       ELSE [bs |-> bs, res |-> "NotBorrowed"]

bs_release_exclusive(bs, cap_idx, tid) ==
    IF bs.exclusive # <<>> /\ bs.exclusive[1].cap = cap_idx /\ bs.exclusive[1].tid = tid
    THEN IF bs.frozen_count > 0 THEN [bs |-> bs, res |-> "StillFrozen"]
         ELSE [bs |-> [bs EXCEPT !.exclusive = <<>>], res |-> "Ok"]
    ELSE [bs |-> bs, res |-> "NotBorrowed"]

\* u32::saturating_add(1)
saturating_add1(n) == IF n >= U32_MAX THEN U32_MAX ELSE n + 1

freeze(bs, cap_idx, tid) ==
    IF bs.exclusive # <<>> /\ bs.exclusive[1].cap = cap_idx /\ bs.exclusive[1].tid = tid
    THEN [bs |-> [bs EXCEPT !.frozen_count = saturating_add1(@)], res |-> "Ok"]
    ELSE [bs |-> bs, res |-> "NotBorrowed"]

unfreeze(bs, cap_idx, tid) ==
    IF bs.exclusive # <<>> /\ bs.exclusive[1].cap = cap_idx /\ bs.exclusive[1].tid = tid
    THEN IF bs.frozen_count = 0 THEN [bs |-> bs, res |-> "NotFrozen"]
         ELSE [bs |-> [bs EXCEPT !.frozen_count = @ - 1], res |-> "Ok"]
    ELSE [bs |-> bs, res |-> "NotBorrowed"]

(* ------------------------------------------------------------------ *)
(* Per-CPU cache of CPU 0                                               *)
(* ------------------------------------------------------------------ *)
\* s is [ro, wr, pc]
lookup_validated(s, pid, rid) ==
    LET idx == s.pc[slot(pid, fast_hash(rid))]
    IN IF idx = INV THEN INV
       ELSE IF idx \in Indices
               /\ s.ro[idx].state = "Live"
               /\ s.ro[idx].owner_pid = pid
               /\ s.ro[idx].resource_id = rid
       THEN idx
       ELSE INV

pcache_insert(pc, pid, rid_hash, idx) == [pc EXCEPT ![slot(pid, rid_hash)] = idx]

\* pcache_invalidate_all: every CPU's cache; only CPU 0's is ever written
invalidate_idx(pc, idx) == [i \in DOMAIN pc |-> IF pc[i] = idx THEN INV ELSE pc[i]]

(* ------------------------------------------------------------------ *)
(* Validation, index maintenance, freeing                               *)
(* ------------------------------------------------------------------ *)
fast_validate(ro_, h) ==
    IF h.index \notin Indices THEN "InvalidHandle"
    ELSE IF ro_[h.index].state # "Live" THEN "InvalidHandle"
    ELSE IF ro_[h.index].generation # h.generation THEN "InvalidHandle"
    ELSE IF ro_[h.index].scope # h.scope THEN "InvalidHandle"
    ELSE "Ok"

qc_remove_idx(s, pid, rid, idx) ==
    IF <<pid, rid>> \in DOMAIN s.wr.quick_cache
    THEN [s EXCEPT !.wr.quick_cache[<<pid, rid>>] = retain_ne(@, idx)]
    ELSE s

scope_remove_idx(s, scope, idx) ==
    CASE scope.k = "Thread" /\ scope.t \in DOMAIN s.wr.thread_caps ->
            [s EXCEPT !.wr.thread_caps[scope.t] = retain_ne(@, idx)]
      [] scope.k = "Syscall" /\ <<scope.t, scope.s>> \in DOMAIN s.wr.syscall_caps ->
            [s EXCEPT !.wr.syscall_caps[<<scope.t, scope.s>>] = retain_ne(@, idx)]
      [] OTHER -> s

unlink_graph_locked(s, idx) ==
    LET s1 == IF idx \in DOMAIN s.wr.parent_of
              THEN LET p == s.wr.parent_of[idx]
                   IN [s EXCEPT !.wr.parent_of = MapDel(@, idx),
                                !.wr.children_of[p] = retain_ne(@, idx)]
              ELSE s
        children == s1.wr.children_of[idx]
    IN [s1 EXCEPT !.wr.children_of[idx] = <<>>,
                  !.wr.parent_of = [c \in (DOMAIN @) \ Range(children) |-> @[c]]]

\* free_slot_locked without `e.generation = e.generation.wrapping_add(1)`
free_slot_keeping_generation(s, idx) ==
    [s EXCEPT !.ro[idx].state = "Free",
              !.wr.used_count = IF @ = 0 THEN 0 ELSE @ - 1,
              !.wr.free_slots = Append(@, idx),
              !.pc = invalidate_idx(@, idx)]

free_slot_locked(s, idx) ==
    [s EXCEPT !.ro[idx].generation = wrapping_add1(@),
              !.ro[idx].state = "Free",
              !.wr.used_count = IF @ = 0 THEN 0 ELSE @ - 1,
              !.wr.free_slots = Append(@, idx),
              !.pc = invalidate_idx(@, idx)]

(* ------------------------------------------------------------------ *)
(* Ghost: the log of slot transitions made by the running operation.    *)
(* An entry is appended whenever a slot's state or generation changes;  *)
(* live_below is the set of delegation descendants that are still Live  *)
(* at that moment.  The log is observation only: nothing reads it.      *)
(* ------------------------------------------------------------------ *)
RECURSIVE DescendantsUpTo(_, _, _)
DescendantsUpTo(children_of, idx, n) ==
    IF n = 0 THEN {}
    ELSE LET cs == Range(children_of[idx])
         IN cs \cup UNION {DescendantsUpTo(children_of, c, n - 1) : c \in cs}
Descendants(children_of, idx) == DescendantsUpTo(children_of, idx, MAX_CAPABILITIES)

Logged(before, after, idx) ==
    IF before.ro[idx].state = after.ro[idx].state
       /\ before.ro[idx].generation = after.ro[idx].generation
    THEN after
    ELSE [after EXCEPT !.log = Append(@,
            [idx |-> idx,
             from |-> before.ro[idx].state,
             to |-> after.ro[idx].state,
             creation_order |-> before.ro[idx].creation_order,
             live_below |-> {d \in Descendants(before.wr.children_of, idx) :
                                before.ro[d].state = "Live"}])]

(* ------------------------------------------------------------------ *)
(* Revocation                                                           *)
(* ------------------------------------------------------------------ *)
revoke_one_locked(s, idx, strict) ==
    LET e == s.ro[idx]
        rid == e.resource_id
    IN IF rid \in DOMAIN s.wr.resource_borrows /\ has_active(s.wr.resource_borrows[rid])
       THEN IF strict THEN [s |-> s, res |-> "BorrowConflict"]
            ELSE [s |-> Logged(s, [s EXCEPT !.wr.pending_revoke[rid] = Append(@, idx),
                                            !.ro[idx].state = "PendingRevoke"], idx),
                  res |-> "Ok"]
       ELSE [s |-> Logged(s,
                     free_slot_locked(
                       unlink_graph_locked(
                         scope_remove_idx(
                           qc_remove_idx(s, e.owner_pid, e.resource_id, idx),
                           e.scope, idx),
                         idx),
                       idx),
                     idx),
             res |-> "Ok"]

\* revoke_dfs_locked without the loop over the children
revoke_without_children(s, idx, strict) ==
    IF idx \notin Indices THEN [s |-> s, res |-> "Ok"]
    ELSE IF s.ro[idx].state = "Free" THEN [s |-> s, res |-> "Ok"]
    ELSE revoke_one_locked(s, idx, strict)

RECURSIVE revoke_dfs_locked(_, _, _)
RECURSIVE revoke_dfs_children(_, _, _, _)
\* the loop `for c in children { revoke_dfs_locked(wr, ro, c, strict)?; }`
revoke_dfs_children(s, children, i, strict) ==
    IF i > Len(children) THEN [s |-> s, res |-> "Ok"]
    ELSE LET r == revoke_dfs_locked(s, children[i], strict)
         IN IF r.res # "Ok" THEN r
            ELSE revoke_dfs_children(r.s, children, i + 1, strict)

revoke_dfs_locked(s, idx, strict) ==
    IF idx \notin Indices THEN [s |-> s, res |-> "Ok"]
    ELSE IF s.ro[idx].state = "Free" THEN [s |-> s, res |-> "Ok"]
    ELSE LET r == revoke_dfs_children(s, s.wr.children_of[idx], 1, strict)
         IN IF r.res # "Ok" THEN r
            ELSE revoke_one_locked(r.s, idx, strict)

RECURSIVE complete_pending_list(_, _, _)
\* the loop `for idx in idxs { let _ = revoke_one_locked(wr, ro, idx, true); }`
complete_pending_list(s, idxs, i) ==
    IF i > Len(idxs) THEN s
    ELSE complete_pending_list(revoke_one_locked(s, idxs[i], TRUE).s, idxs, i + 1)

try_complete_pending_for(s, rid) ==
    IF s.wr.pending_revoke[rid] = <<>> THEN s
    ELSE IF rid \in DOMAIN s.wr.resource_borrows /\ has_active(s.wr.resource_borrows[rid])
    THEN s
    ELSE LET idxs == s.wr.pending_revoke[rid]
             s1 == [s EXCEPT !.wr.pending_revoke[rid] = <<>>]
             s2 == complete_pending_list(s1, idxs, 1)
         IN [s2 EXCEPT !.wr.pending_revoke[rid] = <<>>]

(* ------------------------------------------------------------------ *)
(* Binding                                                              *)
(* ------------------------------------------------------------------ *)
HandleOf(ro_, idx) ==
    CapabilityHandle(idx, ro_[idx].generation, ro_[idx].scope, ro_[idx].creation_order)

\* the first index of `list` whose slot is Live with this owner and resource
\* (a position in the list, 0 for none)
first_live(ro_, list, pid, rid) ==
    position({n \in DOMAIN list : /\ ro_[list[n]].state = "Live"
                                   /\ ro_[list[n]].owner_pid = pid
                                   /\ ro_[list[n]].resource_id = rid})

scope_index_push(wr_, pid, scope, idx) ==
    CASE scope.k = "Process" -> [wr_ EXCEPT !.process_caps[pid] = Append(@, idx)]
      [] scope.k = "Thread" -> [wr_ EXCEPT !.thread_caps[scope.t] = Append(@, idx)]
      [] scope.k = "Syscall" ->
            [wr_ EXCEPT !.syscall_caps[<<scope.t, scope.s>>] = Append(@, idx)]
      [] OTHER -> wr_

\* parent is a slot index, or INV for None
bind_internal(s, pid, rid, caps_bits, scope, creation_order, parent) ==
    LET key == <<pid, rid>>
        hit == first_live(s.ro, s.wr.quick_cache[key], pid, rid)
    IN IF hit # 0
       THEN [s |-> s, res |-> "Ok", h |-> HandleOf(s.ro, s.wr.quick_cache[key][hit])]
       ELSE IF s.wr.free_slots = <<>>
       THEN [s |-> s, res |-> "TableFull", h |-> NoHandle]
       ELSE
         LET idx == s.wr.free_slots[Len(s.wr.free_slots)]
             ro1 == [s.ro EXCEPT ![idx] =
                        [resource_id |-> rid, owner_pid |-> pid, capabilities |-> caps_bits,
                         generation |-> s.ro[idx].generation, state |-> "Live",
                         creation_order |-> creation_order, scope |-> scope]]
             wr1 == [s.wr EXCEPT
                        !.free_slots = SubSeq(@, 1, Len(@) - 1),
                        !.quick_cache[key] = Append(@, idx),
                        !.used_count = @ + 1,
                        !.resource_borrows =
                            IF rid \in DOMAIN @ THEN @
                            ELSE MapPut(@, rid, ResourceBorrowState_new)]
             wr2 == scope_index_push(wr1, pid, scope, idx)
             s2 == [s EXCEPT !.ro = ro1, !.wr = wr2,
                             !.pc = pcache_insert(@, pid, fast_hash(rid), idx)]
         IN IF parent # INV
            THEN IF Len(s2.wr.children_of[parent]) >= MAX_CHILDREN_PER_CAP
                 THEN [s |-> s2, res |-> "TooManyChildren", h |-> NoHandle]
                 ELSE [s |-> [s2 EXCEPT !.wr.children_of[parent] = Append(@, idx),
                                        !.wr.parent_of = MapPut(@, idx, parent)],
                       res |-> "Ok", h |-> HandleOf(ro1, idx)]
            ELSE [s |-> s2, res |-> "Ok", h |-> HandleOf(ro1, idx)]

(* ------------------------------------------------------------------ *)
(* Grant and transfer: the lookup made under the first WR_DATA guard    *)
(* ------------------------------------------------------------------ *)
\* the loop over quick_cache[(pid, rid)] that finds the Live capability and
\* tests one management right; idx is INV unless res is "Ok"
find_with_right(s, pid, rid, right) ==
    LET list == s.wr.quick_cache[<<pid, rid>>]
        hit == first_live(s.ro, list, pid, rid)
    IN IF hit = 0 THEN [res |-> "ResourceNotFound", idx |-> INV]
       ELSE IF right \notin s.ro[list[hit]].capabilities
       THEN [res |-> "PermissionDenied", idx |-> INV]
       ELSE [res |-> "Ok", idx |-> list[hit]]

grant_readonly_check(s, grantor_pid, rid) ==
    LET f == find_with_right(s, grantor_pid, rid, GRANT)
    IN IF f.res # "Ok" THEN f
       ELSE IF READ \notin s.ro[f.idx].capabilities
       THEN [res |-> "PermissionDenied", idx |-> INV]
       ELSE f

grant_exclusive_check(s, grantor_pid, rid) ==
    LET f == find_with_right(s, grantor_pid, rid, GRANT)
    IN IF f.res # "Ok" THEN f
       ELSE LET grantable == s.ro[f.idx].capabilities \cap TRANSFERABLE_MASK
            IN IF ~(RW \subseteq grantable)
               THEN [res |-> "PermissionDenied", idx |-> INV]
               ELSE f

\* transfer_resource up to drop(wr): caps_new is what the second half binds with
transfer_revoke(s, from_pid, rid) ==
    LET f == find_with_right(s, from_pid, rid, TRANSFER)
    IN IF f.res # "Ok" THEN [s |-> s, res |-> f.res, caps_new |-> {}]
       ELSE LET caps_new == s.ro[f.idx].capabilities \cap TRANSFERABLE_MASK
                r == revoke_dfs_locked(s, f.idx, TRUE)
            IN [s |-> r.s, res |-> r.res, caps_new |-> caps_new]

\* the rights transfer_resource binds for to_pid
transfer_caps(caps_new) ==
    IF {WRITE, MAP} \subseteq caps_new THEN RW \cup {MAP} ELSE {READ}

transfer_bind(s, to_pid, rid, caps_new, creation_order) ==
    bind_internal(s, to_pid, rid, transfer_caps(caps_new), Process, creation_order, INV)

(* ------------------------------------------------------------------ *)
(* Physical page allocator (srv/mm/physical.rs).  The bitmap is kept     *)
(* word by word, a word being the set of its set bits, because           *)
(* compare_exchange compares whole words; 64-bit words and 1024 words    *)
(* in the source, scaled down.                                           *)
(* ------------------------------------------------------------------ *)
\* the allocator after init(base, size)
PhysicalAllocator_init ==
    [base |-> PhysBase,
     total_pages |-> IF TotalPages < MAX_PAGES THEN TotalPages ELSE MAX_PAGES,
     free_pages |-> IF TotalPages < MAX_PAGES THEN TotalPages ELSE MAX_PAGES,
     bitmap |-> [w \in 0 .. (BITMAP_SIZE - 1) |-> {}],
     owners |-> [i \in 0 .. (MAX_PAGES - 1) |-> 0]]

\* `for bit in 0..64 { if (word & (1 << bit)) == 0`: the first clear bit
first_clear(word) == CHOOSE b \in FullWord \ word : \A c \in FullWord \ word : b <= c

\* alloc_raw after a compare_exchange that set `bit` of word word_idx succeeded
alloc_claimed(a, pid, word_idx, bit) ==
    LET page_idx == word_idx * WORD_BITS + bit
    IN IF page_idx >= a.total_pages THEN [phys |-> a, addr |-> NoAddr]
       ELSE [phys |-> [a EXCEPT !.owners[page_idx] = pid, !.free_pages = @ - 1],
             addr |-> a.base + page_idx * PAGE_SIZE]

RECURSIVE alloc_scan(_, _, _)
\* the loop `for word_idx in 0..BITMAP_SIZE` of alloc_raw, run alone (no
\* compare_exchange fails)
alloc_scan(a, pid, word_idx) ==
    IF word_idx >= BITMAP_SIZE THEN [phys |-> a, addr |-> NoAddr]
    ELSE LET word == a.bitmap[word_idx]
         IN IF word = FullWord THEN alloc_scan(a, pid, word_idx + 1)
            ELSE LET bit == first_clear(word)
                 IN alloc_claimed([a EXCEPT !.bitmap[word_idx] = word \cup {bit}],
                                  pid, word_idx, bit)

alloc_raw(a, pid) == alloc_scan(a, pid, 0)

\* free_check without the comparison of the stored owner with pid
free_check_any_owner(a, pid, addr) ==
    IF addr < a.base THEN "Invalid address"
    ELSE IF (addr - a.base) \div PAGE_SIZE >= a.total_pages THEN "Page index out of range"
    ELSE "Ok"

\* the checks of free_raw: its error, or "Ok"
free_check(a, pid, addr) ==
    IF addr < a.base THEN "Invalid address"
    ELSE IF (addr - a.base) \div PAGE_SIZE >= a.total_pages THEN "Page index out of range"
    ELSE IF a.owners[(addr - a.base) \div PAGE_SIZE] # pid THEN "Permission denied"
    ELSE "Ok"

free_raw(a, pid, addr) ==
    IF free_check(a, pid, addr) # "Ok" THEN [phys |-> a, res |-> free_check(a, pid, addr)]
    ELSE LET page_idx == (addr - a.base) \div PAGE_SIZE
             word_idx == page_idx \div WORD_BITS
             bit == page_idx % WORD_BITS
         IN [phys |-> [a EXCEPT !.owners[page_idx] = 0,
                                !.bitmap[word_idx] = @ \ {bit},
                                !.free_pages = @ + 1],
             res |-> "Ok"]

VARIABLES ro, wr, pcache, creation_seq, issued, epoch, th, seen, phys, pages

vars == <<ro, wr, pcache, creation_seq, issued, epoch, th, seen, phys, pages>>

(* ------------------------------------------------------------------ *)
(* State                                                                *)
(*   ro, wr, pcache : RO_DATA, WR_DATA, PER_CPU[0].recent_caps          *)
(*   creation_seq   : CREATION_SEQ                                      *)
(*   issued         : ghost, the handles returned so far, each with the *)
(*                    (pid, rid) it was returned for, the grantor when  *)
(*                    a grant allocated its slot (0 otherwise) and the  *)
(*                    number of frees its slot had seen when returned   *)
(*   epoch          : ghost, per slot the number of transitions to Free *)
(*   th             : the operations in progress (ConcSpec only)        *)
(*   seen           : ghost, the highest process id that has owned a    *)
(*                    slot so far.  Process ids are       *)
(*                    opaque and no two (pid, Page0) pairs share a      *)
(*                    per-CPU cache entry, so the specifications hand   *)
(*                    them out in increasing order: a run that uses     *)
(*                    them in another order is a renaming of one that   *)
(*                    is explored.                                      *)
(*   phys           : the physical allocator (ALLOCATOR)                *)
(*   pages          : the page objects and raw allocations the callers  *)
(*                    hold, in the order they were handed out           *)
(* ------------------------------------------------------------------ *)
State == [ro |-> ro, wr |-> wr, pc |-> pcache, log |-> <<>>]

\* the transitions to Free of slot i in a log
FreesOf(log, i) ==
    Cardinality({n \in DOMAIN log : log[n].idx = i /\ log[n].from # "Free"
                                     /\ log[n].to = "Free"})

\* what a call that answered r = [s, res, h] for (pid, rid) hands to its
\* caller: nothing, or the handle h.  grantor is the granting process when the
\* call was a grant that allocated the slot, and 0 otherwise.
Issue(r, pid, rid, grantor) ==
    IF r.h = NoHandle THEN {}
    ELSE {[h |-> r.h, pid |-> pid, rid |-> rid, grantor |-> grantor]}

\* the grantor recorded for a grant by g to pid e made in state s
Grantor(s, g, e, rid) ==
    IF first_live(s.ro, s.wr.quick_cache[<<e, rid>>], e, rid) = 0 THEN g ELSE 0

\* An operation completes: the kernel state becomes s, CREATION_SEQ becomes
\* seq, and the ghosts follow.  issue is what Issue says of the call.
CommitTable(s, seq, issue) ==
    /\ ro' = s.ro
    /\ wr' = s.wr
    /\ pcache' = s.pc
    /\ creation_seq' = seq
    /\ epoch' = [i \in Indices |-> epoch[i] + FreesOf(s.log, i)]
    /\ issued' = issued \cup
                    {[h |-> x.h, pid |-> x.pid, rid |-> x.rid, grantor |-> x.grantor,
                      ep |-> epoch'[x.h.index]] : x \in issue}
    /\ seen' = IF \E i \in Indices : s.ro[i].owner_pid > seen
               THEN CHOOSE p \in Pids : /\ \E i \in Indices : s.ro[i].owner_pid = p
                                        /\ \A i \in Indices : s.ro[i].owner_pid <= p
               ELSE seen

\* a call of the capability table: the physical allocator and the page
\* objects stay as they are
Commit(s, seq, issue) == CommitTable(s, seq, issue) /\ UNCHANGED <<phys, pages>>

\* the same for a call that runs to completion
Finish(s, seq, issue) == Commit(s, seq, issue) /\ UNCHANGED th

Handles == {x.h : x \in issued}
\* the (rights, scope) pairs bind_resource_scoped is called with
ScopedChoices ==
    {[caps |-> ALL, scope |-> Process],
     [caps |-> ALL, scope |-> Permanent],
     [caps |-> {READ, WRITE, GRANT}, scope |-> Thread(7)],
     [caps |-> ALL, scope |-> Syscall(7, 1)]}

Init ==
    /\ ro = [i \in Indices |-> CapabilityEntry_empty]
    /\ wr = WriteData_init
    /\ pcache = PerCpuCache_new
    /\ creation_seq = 0
    /\ issued = {}
    /\ epoch = [i \in Indices |-> 0]
    /\ th = <<>>
    /\ seen = 0
    /\ phys = PhysicalAllocator_init
    /\ pages = <<>>

(* ------------------------------------------------------------------ *)
(* Public operations, run to completion                                 *)
(* ------------------------------------------------------------------ *)
bind_resource_readonly(s, pid, rid, creation) ==
    LET idx == lookup_validated(s, pid, rid)
    IN IF idx # INV
       THEN [s |-> s, res |-> "Ok", h |-> HandleOf(s.ro, idx)]
       ELSE bind_internal(s, pid, rid, {READ}, Process, creation, INV)

bind_resource_exclusive(s, pid, rid, creation) ==
    bind_internal(s, pid, rid, RW \cup {MAP}, Process, creation, INV)

bind_resource_scoped(s, pid, rid, caps_bits, scope, creation) ==
    bind_internal(s, pid, rid, caps_bits, scope, creation, INV)

\* grant_*: the check and, when it passes, CREATION_SEQ and bind_internal;
\* seq is the value of CREATION_SEQ afterwards
grant_readonly(s, seq, grantor_pid, grantee_pid, rid) ==
    LET c == grant_readonly_check(s, grantor_pid, rid)
    IN IF c.res # "Ok" THEN [s |-> s, res |-> c.res, h |-> NoHandle, seq |-> seq]
       ELSE LET b == bind_internal(s, grantee_pid, rid, {READ}, Process, seq, c.idx)
            IN [s |-> b.s, res |-> b.res, h |-> b.h, seq |-> seq + 1]

grant_exclusive(s, seq, grantor_pid, grantee_pid, rid) ==
    LET c == grant_exclusive_check(s, grantor_pid, rid)
    IN IF c.res # "Ok" THEN [s |-> s, res |-> c.res, h |-> NoHandle, seq |-> seq]
       ELSE LET b == bind_internal(s, grantee_pid, rid, RW \cup {MAP}, Process, seq, c.idx)
            IN [s |-> b.s, res |-> b.res, h |-> b.h, seq |-> seq + 1]

transfer_resource(s, seq, from_pid, to_pid, rid) ==
    LET r == transfer_revoke(s, from_pid, rid)
    IN IF r.res # "Ok" THEN [s |-> r.s, res |-> r.res, seq |-> seq]
       ELSE LET b == transfer_bind(r.s, to_pid, rid, r.caps_new, seq)
            IN [s |-> b.s, res |-> b.res, seq |-> seq + 1]

BindReadonly(pid, rid) ==
    LET r == bind_resource_readonly(State, pid, rid, creation_seq)
    IN Finish(r.s, creation_seq + 1, Issue(r, pid, rid, 0))

BindExclusive(pid, rid) ==
    LET r == bind_resource_exclusive(State, pid, rid, creation_seq)
    IN Finish(r.s, creation_seq + 1, Issue(r, pid, rid, 0))

BindScoped(pid, rid, caps_bits, scope) ==
    LET r == bind_resource_scoped(State, pid, rid, caps_bits, scope, creation_seq)
    IN Finish(r.s, creation_seq + 1, Issue(r, pid, rid, 0))

GrantReadonly(grantor_pid, grantee_pid, rid) ==
    LET r == grant_readonly(State, creation_seq, grantor_pid, grantee_pid, rid)
    IN Finish(r.s, r.seq,
              Issue(r, grantee_pid, rid, Grantor(State, grantor_pid, grantee_pid, rid)))

GrantExclusive(grantor_pid, grantee_pid, rid) ==
    LET r == grant_exclusive(State, creation_seq, grantor_pid, grantee_pid, rid)
    IN Finish(r.s, r.seq,
              Issue(r, grantee_pid, rid, Grantor(State, grantor_pid, grantee_pid, rid)))

TransferResource(from_pid, to_pid, rid) ==
    LET r == transfer_resource(State, creation_seq, from_pid, to_pid, rid)
    IN Finish(r.s, r.seq, {})

(* ------------------------------------------------------------------ *)
(* Borrow API.  e is the copy of the slot entry the operation read      *)
(* after fast_validate; the *_locked operators are the part that runs   *)
(* under WR_DATA.                                                       *)
(* ------------------------------------------------------------------ *)
\* fast_validate and the borrow-scope test that precede the lock
borrow_precheck(ro_, h, borrow_scope) ==
    IF fast_validate(ro_, h) # "Ok" THEN "InvalidHandle"
    ELSE IF ~can_borrow_from(borrow_scope, ro_[h.index].scope) THEN "BorrowConflict"
    ELSE "Ok"

\* wr.resource_borrows.get_mut(&rid).ok_or(CapError::ResourceNotFound)
borrow_state_missing(s, rid) == rid \notin DOMAIN s.wr.resource_borrows
NotFound(s) == [s |-> s, res |-> "ResourceNotFound"]
\* the outcome r = [bs, res] of a ResourceBorrowState method, written back
put_borrow_state(s, rid, r) ==
    [s |-> [s EXCEPT !.wr.resource_borrows[rid] = r.bs], res |-> r.res]

borrow_shared_locked(s, e, h, tid) ==
    IF borrow_state_missing(s, e.resource_id) THEN NotFound(s)
    ELSE put_borrow_state(s, e.resource_id,
            try_shared(s.wr.resource_borrows[e.resource_id], h.index, tid,
                       e.capabilities))

borrow_exclusive_locked(s, e, h, tid, borrow_scope) ==
    IF borrow_state_missing(s, e.resource_id) THEN NotFound(s)
    ELSE put_borrow_state(s, e.resource_id,
            try_exclusive(s.wr.resource_borrows[e.resource_id], h.index, tid,
                          borrow_scope, e.capabilities, e.resource_id.typ))

release_shared_locked(s, e, h, tid) ==
    IF borrow_state_missing(s, e.resource_id) THEN NotFound(s)
    ELSE LET r == put_borrow_state(s, e.resource_id,
                     bs_release_shared(s.wr.resource_borrows[e.resource_id],
                                       h.index, tid))
         IN IF r.res # "Ok" THEN r
            ELSE [s |-> try_complete_pending_for(r.s, e.resource_id), res |-> "Ok"]

release_exclusive_locked(s, e, h, tid) ==
    IF borrow_state_missing(s, e.resource_id) THEN NotFound(s)
    ELSE LET r == put_borrow_state(s, e.resource_id,
                     bs_release_exclusive(s.wr.resource_borrows[e.resource_id],
                                          h.index, tid))
         IN IF r.res # "Ok" THEN r
            ELSE [s |-> try_complete_pending_for(r.s, e.resource_id), res |-> "Ok"]

freeze_locked(s, e, h, tid) ==
    IF borrow_state_missing(s, e.resource_id) THEN NotFound(s)
    ELSE put_borrow_state(s, e.resource_id,
            freeze(s.wr.resource_borrows[e.resource_id], h.index, tid))

unfreeze_locked(s, e, h, tid) ==
    IF borrow_state_missing(s, e.resource_id) THEN NotFound(s)
    ELSE put_borrow_state(s, e.resource_id,
            unfreeze(s.wr.resource_borrows[e.resource_id], h.index, tid))

borrow_shared_ro(s, h, tid, borrow_scope) ==
    LET pre == borrow_precheck(s.ro, h, borrow_scope)
    IN IF pre # "Ok" THEN [s |-> s, res |-> pre]
       ELSE borrow_shared_locked(s, s.ro[h.index], h, tid)

borrow_exclusive(s, h, tid, borrow_scope) ==
    LET pre == borrow_precheck(s.ro, h, borrow_scope)
    IN IF pre # "Ok" THEN [s |-> s, res |-> pre]
       ELSE borrow_exclusive_locked(s, s.ro[h.index], h, tid, borrow_scope)

borrow_shared_from_frozen(s, h, tid, borrow_scope) ==
    LET pre == borrow_precheck(s.ro, h, borrow_scope)
    IN IF pre # "Ok" THEN [s |-> s, res |-> pre]
       ELSE borrow_shared_locked(s, s.ro[h.index], h, tid)

release_shared(s, h, tid) ==
    IF fast_validate(s.ro, h) # "Ok" THEN [s |-> s, res |-> "InvalidHandle"]
    ELSE release_shared_locked(s, s.ro[h.index], h, tid)

release_shared_frozen(s, h, tid) ==
    IF fast_validate(s.ro, h) # "Ok" THEN [s |-> s, res |-> "InvalidHandle"]
    ELSE release_shared_locked(s, s.ro[h.index], h, tid)

release_exclusive(s, h, tid) ==
    IF fast_validate(s.ro, h) # "Ok" THEN [s |-> s, res |-> "InvalidHandle"]
    ELSE release_exclusive_locked(s, s.ro[h.index], h, tid)

freeze_exclusive(s, h, tid) ==
    IF fast_validate(s.ro, h) # "Ok" THEN [s |-> s, res |-> "InvalidHandle"]
    ELSE freeze_locked(s, s.ro[h.index], h, tid)

unfreeze_exclusive(s, h, tid) ==
    IF fast_validate(s.ro, h) # "Ok" THEN [s |-> s, res |-> "InvalidHandle"]
    ELSE unfreeze_locked(s, s.ro[h.index], h, tid)

revoke_capability(s, h) ==
    IF fast_validate(s.ro, h) # "Ok" THEN [s |-> s, res |-> "InvalidHandle"]
    ELSE revoke_dfs_locked(s, h.index, TRUE)

revoke_capability_deferred(s, h) ==
    IF fast_validate(s.ro, h) # "Ok" THEN [s |-> s, res |-> "InvalidHandle"]
    ELSE revoke_dfs_locked(s, h.index, FALSE)

(* ------------------------------------------------------------------ *)
(* Verification.  Run to completion, the entry verify_capability_fast   *)
(* reads is the entry lookup_validated validated.                       *)
(* ------------------------------------------------------------------ *)
verify_capability_fast(s, pid, rid, required) ==
    LET idx == lookup_validated(s, pid, rid)
    IN IF idx # INV THEN required \subseteq s.ro[idx].capabilities
       ELSE FALSE

verify_capability(s, pid, rid, required) ==
    \/ verify_capability_fast(s, pid, rid, required)
    \/ \E n \in DOMAIN s.wr.quick_cache[<<pid, rid>>] :
          LET e == s.ro[s.wr.quick_cache[<<pid, rid>>][n]]
          IN /\ e.state = "Live" /\ e.owner_pid = pid /\ e.resource_id = rid
             /\ required \subseteq e.capabilities
    \/ \E i \in Indices :
          /\ s.ro[i].state = "Live" /\ s.ro[i].owner_pid = pid
          /\ s.ro[i].resource_id = rid
          /\ required \subseteq s.ro[i].capabilities

\* an operation on a handle that returned r = [s, res]
HandleOpDone(r) == Finish(r.s, creation_seq, {})

\* guards of the specifications: the callers hold fewer than max shared
\* borrows of the handle's resource, and its frozen_count is below max
SharedRoom(h, max) ==
    \A rid \in DOMAIN wr.resource_borrows :
        ro[h.index].resource_id = rid => Len(wr.resource_borrows[rid].shared) < max
FreezeRoom(h, max) ==
    \A rid \in DOMAIN wr.resource_borrows :
        ro[h.index].resource_id = rid => wr.resource_borrows[rid].frozen_count < max

BorrowSharedRo(h, tid, borrow_scope) ==
    HandleOpDone(borrow_shared_ro(State, h, tid, borrow_scope))

BorrowSharedFromFrozen(h, tid, borrow_scope) ==
    HandleOpDone(borrow_shared_from_frozen(State, h, tid, borrow_scope))

BorrowExclusive(h, tid, borrow_scope) ==
    HandleOpDone(borrow_exclusive(State, h, tid, borrow_scope))

ReleaseShared(h, tid) ==
    HandleOpDone(release_shared(State, h, tid))

ReleaseSharedFrozen(h, tid) ==
    HandleOpDone(release_shared_frozen(State, h, tid))

ReleaseExclusive(h, tid) ==
    HandleOpDone(release_exclusive(State, h, tid))

FreezeExclusive(h, tid) ==
    HandleOpDone(freeze_exclusive(State, h, tid))

UnfreezeExclusive(h, tid) ==
    HandleOpDone(unfreeze_exclusive(State, h, tid))

RevokeCapability(h) ==
    HandleOpDone(revoke_capability(State, h))

RevokeCapabilityDeferred(h) ==
    HandleOpDone(revoke_capability_deferred(State, h))

(* ------------------------------------------------------------------ *)
(* Scope hooks                                                          *)
(* ------------------------------------------------------------------ *)
RECURSIVE sort_from(_, _, _, _)
\* stable insertion of idxs[i..] into `sorted`, by creation_order descending
sort_from(ro_, idxs, i, sorted) ==
    IF i > Len(idxs) THEN sorted
    ELSE LET x == idxs[i]
             \* x goes after every element whose key is >= its own
             n == Cardinality({j \in DOMAIN sorted :
                     ro_[sorted[j]].creation_order >= ro_[x].creation_order})
         IN sort_from(ro_, idxs, i + 1,
                      SubSeq(sorted, 1, n) \o <<x>> \o SubSeq(sorted, n + 1, Len(sorted)))

\* idxs.sort_by_key(|&i| Reverse(ro[i].creation_order))
sort_by_creation_desc(ro_, idxs) == sort_from(ro_, idxs, 1, <<>>)

RECURSIVE revoke_sorted(_, _, _, _)
\* the loop of revoke_indices_deterministic, under WR_DATA and RO_DATA.write
revoke_sorted(s, idxs, i, count) ==
    IF i > Len(idxs) THEN [s |-> s, count |-> count]
    ELSE IF s.ro[idxs[i]].state # "Free"
    THEN LET r == revoke_dfs_locked(s, idxs[i], TRUE)
         IN revoke_sorted(r.s, idxs, i + 1, IF r.res = "Ok" THEN count + 1 ELSE count)
    ELSE revoke_sorted(s, idxs, i + 1, count)

revoke_indices_deterministic(s, idxs) ==
    revoke_sorted(s, sort_by_creation_desc(s.ro, idxs), 1, 0)

on_process_exit(s, pid) ==
    revoke_indices_deterministic([s EXCEPT !.wr.process_caps[pid] = <<>>],
                                 s.wr.process_caps[pid])

on_thread_exit(s, tid) ==
    revoke_indices_deterministic([s EXCEPT !.wr.thread_caps[tid] = <<>>],
                                 s.wr.thread_caps[tid])

on_syscall_return(s, tid, seq) ==
    revoke_indices_deterministic([s EXCEPT !.wr.syscall_caps[<<tid, seq>>] = <<>>],
                                 s.wr.syscall_caps[<<tid, seq>>])

HookDone(r) == Finish(r.s, creation_seq, {})

OnProcessExit(pid) ==
    HookDone(on_process_exit(State, pid))

OnThreadExit(tid) ==
    HookDone(on_thread_exit(State, tid))

OnSyscallReturn(tid, seq) ==
    HookDone(on_syscall_return(State, tid, seq))

(* ------------------------------------------------------------------ *)
(* Spec: one caller, every operation runs to completion.  Three         *)
(* processes bind, grant, transfer and revoke, the scopes end, and      *)
(* thread 7 takes and returns shared borrows with a scope every         *)
(* capability accepts.                                                  *)
(* ------------------------------------------------------------------ *)
\* pid may receive a capability: it is a process already seen, or the next one
Intro(pid) == pid <= seen + 1

Next ==
    \/ \E pid \in Pids, rid \in Rids :
          creation_seq < MaxSeq /\ Intro(pid) /\ BindReadonly(pid, rid)
    \/ \E pid \in Pids, rid \in Rids :
          creation_seq < MaxSeq /\ Intro(pid) /\ BindExclusive(pid, rid)
    \/ \E pid \in Pids, rid \in Rids, c \in ScopedChoices :
          creation_seq < MaxSeq /\ Intro(pid) /\ BindScoped(pid, rid, c.caps, c.scope)
    \/ \E g \in Pids, e \in Pids, rid \in Rids :
          creation_seq < MaxSeq /\ Intro(e) /\ GrantReadonly(g, e, rid)
    \/ \E g \in Pids, e \in Pids, rid \in Rids :
          creation_seq < MaxSeq /\ Intro(e) /\ GrantExclusive(g, e, rid)
    \/ \E f \in Pids, to \in Pids, rid \in Rids :
          creation_seq < MaxSeq /\ Intro(to) /\ TransferResource(f, to, rid)
    \/ \E h \in Handles :
          SharedRoom(h, MaxShared) /\ BorrowSharedRo(h, 7, Syscall(7, 1))
    \/ \E h \in Handles : ReleaseShared(h, 7)
    \/ \E h \in Handles : RevokeCapability(h)
    \/ \E h \in Handles : RevokeCapabilityDeferred(h)
    \/ \E pid \in Pids : OnProcessExit(pid)
    \/ \E tid \in Tids : OnThreadExit(tid)
    \/ \E tid \in Tids : OnSyscallReturn(tid, 1)

Spec == Init /\ [][Next]_vars

(* ------------------------------------------------------------------ *)
(* BorrowSpec: the borrow protocol.  Two processes bind the page, and   *)
(* both threads borrow, freeze, release and revoke with either borrow   *)
(* scope.                                                               *)
(* ------------------------------------------------------------------ *)
BorrowPids == {1, 2}

BorrowNext ==
    \/ \E pid \in BorrowPids, rid \in Rids :
          creation_seq < BorrowMaxSeq /\ Intro(pid) /\ BindReadonly(pid, rid)
    \/ \E pid \in BorrowPids, rid \in Rids :
          creation_seq < BorrowMaxSeq /\ Intro(pid) /\ BindExclusive(pid, rid)
    \/ \E h \in Handles, tid \in Tids, sc \in BorrowScopes :
          SharedRoom(h, BorrowMaxShared) /\ BorrowSharedRo(h, tid, sc)
    \/ \E h \in Handles, tid \in Tids, sc \in BorrowScopes :
          SharedRoom(h, BorrowMaxShared) /\ BorrowSharedFromFrozen(h, tid, sc)
    \/ \E h \in Handles, tid \in Tids, sc \in BorrowScopes : BorrowExclusive(h, tid, sc)
    \/ \E h \in Handles, tid \in Tids : ReleaseShared(h, tid)
    \/ \E h \in Handles, tid \in Tids : ReleaseSharedFrozen(h, tid)
    \/ \E h \in Handles, tid \in Tids : ReleaseExclusive(h, tid)
    \/ \E h \in Handles, tid \in Tids :
          FreezeRoom(h, BorrowMaxFrozen) /\ FreezeExclusive(h, tid)
    \/ \E h \in Handles, tid \in Tids : UnfreezeExclusive(h, tid)
    \/ \E h \in Handles : RevokeCapability(h)
    \/ \E h \in Handles : RevokeCapabilityDeferred(h)

BorrowSpec == Init /\ [][BorrowNext]_vars

(* ------------------------------------------------------------------ *)
(* ConcSpec: two kernel threads.  An operation is cut where the source  *)
(* holds neither WR_DATA nor RO_DATA: each step below is one lock       *)
(* region (or one atomic fetch_add), and the steps of the two threads   *)
(* interleave.  th[t] is the operation thread t is in, with the locals  *)
(* it carries from one region to the next; t is not in DOMAIN th when   *)
(* it is between calls.                                                 *)
(* ------------------------------------------------------------------ *)
CThreads == {1, 2}
ConcPids == {1, 2}

\* the locals of an operation in progress
NoJob ==
    [op |-> "", pc |-> "", pid |-> 0, peer |-> 0, rid |-> Page0, h |-> NoHandle,
     idx |-> INV, creation |-> 0, caps |-> {}, scope |-> Permanent, idxs |-> <<>>]

\* a thread overflowed its stack inside a lock region: it keeps WR_DATA
\* forever and no lock region is entered any more
Overflowed == \E t \in DOMAIN th : th[t].pc = "overflow"
Idle(t) == t \notin DOMAIN th /\ ~Overflowed
At(t, pc) == t \in DOMAIN th /\ th[t].pc = pc /\ ~Overflowed

\* revoke_dfs_locked(idx) recurses for ever when idx is below itself
Cyclic(children_of, idx) ==
    \E d \in {idx} \cup Descendants(children_of, idx) :
        d \in Descendants(children_of, d)

\* some slot of ro_ is Live with owner pid, resource rid and the rights required
Holds(ro_, pid, rid, required) ==
    \E i \in Indices :
        /\ ro_[i].state = "Live" /\ ro_[i].owner_pid = pid /\ ro_[i].resource_id = rid
        /\ required \subseteq ro_[i].capabilities

\* ghost: every verify_capability_fast in progress notes whether the slot
\* array ro_ holds the capability it asks about (`held` is true once it did
\* at some instant of the call)
Observe(ro_, jobs) ==
    [u \in DOMAIN jobs |->
        IF jobs[u].op = "verify_capability_fast"
        THEN [jobs[u] EXCEPT !.held = @ \/ Holds(ro_, jobs[u].pid, jobs[u].rid,
                                                  jobs[u].caps)]
        ELSE jobs[u]]

\* one step of thread t: the kernel state becomes s, CREATION_SEQ seq, the
\* thread's locals job (<<>> when the call returns), and issue is returned
Step(t, s, seq, job, issue) ==
    /\ Commit(s, seq, issue)
    /\ th' = Observe(s.ro, IF job = <<>> THEN MapDel(th, t) ELSE MapPut(th, t, job))

\* bind_resource_*: `let creation = CREATION_SEQ.fetch_add(1)`
CBindReadonlyFetch(t, pid, rid) ==
    /\ Idle(t)
    /\ Step(t, State, creation_seq + 1,
            [NoJob EXCEPT !.op = "bind_resource_readonly", !.pc = "lookup",
                          !.pid = pid, !.rid = rid, !.creation = creation_seq,
                          !.caps = {READ}, !.scope = Process],
            {})

CBindExclusiveFetch(t, pid, rid) ==
    /\ Idle(t)
    /\ Step(t, State, creation_seq + 1,
            [NoJob EXCEPT !.op = "bind_resource_exclusive", !.pc = "bind",
                          !.pid = pid, !.rid = rid, !.creation = creation_seq,
                          !.caps = RW \cup {MAP}, !.scope = Process],
            {})

CBindScopedFetch(t, pid, rid, caps_bits, scope) ==
    /\ Idle(t)
    /\ Step(t, State, creation_seq + 1,
            [NoJob EXCEPT !.op = "bind_resource_scoped", !.pc = "bind",
                          !.pid = pid, !.rid = rid, !.creation = creation_seq,
                          !.caps = caps_bits, !.scope = scope],
            {})

\* bind_resource_readonly: PER_CPU[cpu_id()].lookup_validated(pid, &rid)
CBindReadonlyLookup(t) ==
    /\ At(t, "lookup")
    /\ LET j == th[t]
           idx == lookup_validated(State, j.pid, j.rid)
       IN Step(t, State, creation_seq,
               IF idx # INV THEN [j EXCEPT !.pc = "reread", !.idx = idx]
               ELSE [j EXCEPT !.pc = "bind"],
               {})

\* bind_resource_readonly: `let ro = RO_DATA.read(); let e = ro[idx]` and the
\* handle built from e
CBindReadonlyReread(t) ==
    /\ At(t, "reread")
    /\ LET j == th[t]
       IN Step(t, State, creation_seq, <<>>,
               Issue([h |-> HandleOf(ro, j.idx)], j.pid, j.rid, 0))

\* bind_internal, from its WR_DATA.lock() to its return
CBindInternal(t) ==
    /\ At(t, "bind")
    /\ LET j == th[t]
           r == bind_internal(State, j.pid, j.rid, j.caps, j.scope, j.creation, j.idx)
       IN Step(t, r.s, creation_seq, <<>>,
               IF j.op = "transfer_resource" THEN {}
               ELSE Issue(r, j.pid, j.rid,
                          IF j.idx = INV THEN 0
                          ELSE Grantor(State, j.peer, j.pid, j.rid)))

\* grant_readonly up to drop(wr); an Err returns at once
CGrantReadonlyCheck(t, grantor_pid, grantee_pid, rid) ==
    /\ Idle(t)
    /\ LET c == grant_readonly_check(State, grantor_pid, rid)
       IN Step(t, State, creation_seq,
               IF c.res # "Ok" THEN <<>>
               ELSE [NoJob EXCEPT !.op = "grant_readonly", !.pc = "fetch",
                                  !.pid = grantee_pid, !.peer = grantor_pid,
                                  !.rid = rid, !.idx = c.idx,
                                  !.caps = {READ}, !.scope = Process],
               {})

\* grant_exclusive up to drop(wr)
CGrantExclusiveCheck(t, grantor_pid, grantee_pid, rid) ==
    /\ Idle(t)
    /\ LET c == grant_exclusive_check(State, grantor_pid, rid)
       IN Step(t, State, creation_seq,
               IF c.res # "Ok" THEN <<>>
               ELSE [NoJob EXCEPT !.op = "grant_exclusive", !.pc = "fetch",
                                  !.pid = grantee_pid, !.peer = grantor_pid,
                                  !.rid = rid, !.idx = c.idx,
                                  !.caps = RW \cup {MAP}, !.scope = Process],
               {})

\* the argument `CREATION_SEQ.fetch_add(1, Ordering::Relaxed)` of the call of
\* bind_internal that ends grant_* and transfer_resource
CFetch(t) ==
    /\ At(t, "fetch")
    /\ Step(t, State, creation_seq + 1,
            [th[t] EXCEPT !.pc = "bind", !.creation = creation_seq], {})

\* transfer_resource up to drop(wr): the lookup and the strict revocation
CTransferRevoke(t, from_pid, to_pid, rid) ==
    /\ Idle(t)
    /\ LET f == find_with_right(State, from_pid, rid, TRANSFER)
           r == transfer_revoke(State, from_pid, rid)
       IN IF f.res = "Ok" /\ Cyclic(wr.children_of, f.idx)
          THEN Step(t, State, creation_seq,
                    [NoJob EXCEPT !.op = "transfer_resource", !.pc = "overflow"], {})
          ELSE Step(t, r.s, creation_seq,
                    IF r.res # "Ok" THEN <<>>
                    ELSE [NoJob EXCEPT !.op = "transfer_resource", !.pc = "fetch",
                                       !.pid = to_pid, !.peer = from_pid, !.rid = rid,
                                       !.caps = transfer_caps(r.caps_new),
                                       !.scope = Process],
                    {})

\* revoke_capability: fast_validate(h)?
CRevokeValidate(t, h) ==
    /\ Idle(t)
    /\ Step(t, State, creation_seq,
            IF fast_validate(ro, h) # "Ok" THEN <<>>
            ELSE [NoJob EXCEPT !.op = "revoke_capability", !.pc = "revoke", !.h = h],
            {})

\* revoke_capability: revoke_dfs_locked under WR_DATA and RO_DATA.write
CRevokeDfs(t) ==
    /\ At(t, "revoke")
    /\ LET j == th[t]
       IN IF Cyclic(wr.children_of, j.h.index)
          THEN Step(t, State, creation_seq, [j EXCEPT !.pc = "overflow"], {})
          ELSE Step(t, revoke_dfs_locked(State, j.h.index, TRUE).s, creation_seq,
                    <<>>, {})

\* on_process_exit: wr.process_caps.remove(&pid) under WR_DATA
COnProcessExitTake(t, pid) ==
    /\ Idle(t)
    /\ Step(t, [State EXCEPT !.wr.process_caps[pid] = <<>>], creation_seq,
            [NoJob EXCEPT !.op = "on_process_exit", !.pc = "sort", !.pid = pid,
                          !.idxs = wr.process_caps[pid]],
            {})

\* revoke_indices_deterministic: the sort under RO_DATA.read
CHookSort(t) ==
    /\ At(t, "sort")
    /\ Step(t, State, creation_seq,
            [th[t] EXCEPT !.pc = "revoke_sorted",
                          !.idxs = sort_by_creation_desc(ro, @)],
            {})

\* revoke_indices_deterministic: the loop under WR_DATA and RO_DATA.write
CHookRevoke(t) ==
    /\ At(t, "revoke_sorted")
    /\ LET j == th[t]
       IN IF \E n \in DOMAIN j.idxs :
                ro[j.idxs[n]].state # "Free" /\ Cyclic(wr.children_of, j.idxs[n])
          THEN Step(t, State, creation_seq, [j EXCEPT !.pc = "overflow"], {})
          ELSE Step(t, revoke_sorted(State, j.idxs, 1, 0).s, creation_seq, <<>>, {})

ConcNext ==
    \/ \E t \in CThreads, pid \in ConcPids, rid \in Rids :
          creation_seq < ConcMaxSeq /\ Intro(pid) /\ CBindReadonlyFetch(t, pid, rid)
    \/ \E t \in CThreads, pid \in ConcPids, rid \in Rids :
          creation_seq < ConcMaxSeq /\ Intro(pid) /\ CBindExclusiveFetch(t, pid, rid)
    \/ \E t \in CThreads, pid \in ConcPids, rid \in Rids :
          creation_seq < ConcMaxSeq /\ Intro(pid)
             /\ CBindScopedFetch(t, pid, rid, ALL, Process)
    \/ \E t \in CThreads : CBindReadonlyLookup(t)
    \/ \E t \in CThreads : CBindReadonlyReread(t)
    \/ \E t \in CThreads : CBindInternal(t)
    \/ \E t \in CThreads, g \in ConcPids, e \in ConcPids, rid \in Rids :
          Intro(e) /\ CGrantReadonlyCheck(t, g, e, rid)
    \/ \E t \in CThreads, g \in ConcPids, e \in ConcPids, rid \in Rids :
          Intro(e) /\ CGrantExclusiveCheck(t, g, e, rid)
    \/ \E t \in CThreads : creation_seq < ConcMaxSeq /\ CFetch(t)
    \/ \E t \in CThreads, f \in ConcPids, to \in ConcPids, rid \in Rids :
          Intro(to) /\ CTransferRevoke(t, f, to, rid)
    \/ \E t \in CThreads, h \in Handles : CRevokeValidate(t, h)
    \/ \E t \in CThreads : CRevokeDfs(t)
    \/ \E t \in CThreads, pid \in ConcPids : COnProcessExitTake(t, pid)
    \/ \E t \in CThreads : CHookSort(t)
    \/ \E t \in CThreads : CHookRevoke(t)

ConcSpec == Init /\ [][ConcNext]_vars

(* ------------------------------------------------------------------ *)
(* StaleSpec: a grant interleaved with a revoke and a bind, over two    *)
(* resources, with shared borrows.  The operations are those of         *)
(* ConcSpec that bind with all rights, grant read-only and revoke.      *)
(* ------------------------------------------------------------------ *)
StaleMaxSeq == 3
StaleRids == {Page0, Page16}

StaleNext ==
    \/ \E t \in CThreads, pid \in ConcPids, rid \in StaleRids :
          creation_seq < StaleMaxSeq /\ Intro(pid)
             /\ CBindScopedFetch(t, pid, rid, ALL, Process)
    \/ \E t \in CThreads : CBindInternal(t)
    \/ \E t \in CThreads, g \in ConcPids, e \in ConcPids, rid \in StaleRids :
          Intro(e) /\ CGrantReadonlyCheck(t, g, e, rid)
    \/ \E t \in CThreads : creation_seq < StaleMaxSeq /\ CFetch(t)
    \/ \E t \in CThreads, h \in Handles : CRevokeValidate(t, h)
    \/ \E t \in CThreads : CRevokeDfs(t)
    \/ \E h \in Handles :
          SharedRoom(h, MaxShared) /\ BorrowSharedRo(h, 7, Syscall(7, 1))

StaleSpec == Init /\ [][StaleNext]_vars

(* ------------------------------------------------------------------ *)
(* VerifySpec: verify_capability_fast next to bind and revoke.  The     *)
(* call is two lock regions, the RO_DATA.read() inside lookup_validated *)
(* and the RO_DATA.read() that fetches the entry again; the binds and   *)
(* revokes of the other thread interleave as in ConcSpec.               *)
(* ------------------------------------------------------------------ *)
VerifyPids == {1, 2}
VerifyMaxSeq == 3
\* the rights verify_capability_fast is asked for
VerifyRequired == {{READ}, {WRITE}}

\* verify_capability_fast: PER_CPU[cpu_id()].lookup_validated(pid, &rid); a
\* miss returns false at once
CVerifyLookup(t, pid, rid, required) ==
    /\ Idle(t)
    /\ LET idx == lookup_validated(State, pid, rid)
       IN Step(t, State, creation_seq,
               IF idx = INV THEN <<>>
               ELSE [op |-> "verify_capability_fast", pc |-> "read", pid |-> pid,
                     rid |-> rid, idx |-> idx, caps |-> required, held |-> FALSE],
               {})

\* what `let ro = RO_DATA.read(); let e = ro[idx]` and the test of
\* e.capabilities answer for the call j when they run on the slot array ro_
verify_read(ro_, j) == j.caps \subseteq ro_[j.idx].capabilities

\* verify_capability_fast: the second region and the return
CVerifyRead(t) ==
    /\ At(t, "read")
    /\ Step(t, State, creation_seq, <<>>, {})

VerifyNext ==
    \/ \E t \in CThreads, pid \in VerifyPids, rid \in Rids, req \in VerifyRequired :
          CVerifyLookup(t, pid, rid, req)
    \/ \E t \in CThreads : CVerifyRead(t)
    \/ \E t \in CThreads, pid \in VerifyPids, rid \in Rids :
          creation_seq < VerifyMaxSeq /\ Intro(pid) /\ CBindReadonlyFetch(t, pid, rid)
    \/ \E t \in CThreads, pid \in VerifyPids, rid \in Rids :
          creation_seq < VerifyMaxSeq /\ Intro(pid) /\ CBindExclusiveFetch(t, pid, rid)
    \/ \E t \in CThreads : CBindReadonlyLookup(t)
    \/ \E t \in CThreads : CBindReadonlyReread(t)
    \/ \E t \in CThreads : CBindInternal(t)
    \/ \E t \in CThreads, h \in Handles : CRevokeValidate(t, h)
    \/ \E t \in CThreads : CRevokeDfs(t)

VerifySpec == Init /\ [][VerifyNext]_vars

(* ------------------------------------------------------------------ *)
(* ScopeSpec: ScopeKind::can_borrow_from on every pair of scopes of two *)
(* threads and two syscall numbers.  th is the call: its two arguments  *)
(* and, once it has returned, its answer.                               *)
(* ------------------------------------------------------------------ *)
ScopeUniverse ==
    {Permanent, Process}
       \cup {Thread(t) : t \in Tids}
       \cup {Syscall(t, q) : t \in Tids, q \in {1, 2}}

ScopeInit ==
    /\ ro = [i \in Indices |-> CapabilityEntry_empty]
    /\ wr = WriteData_init
    /\ pcache = PerCpuCache_new
    /\ creation_seq = 0
    /\ issued = {}
    /\ epoch = [i \in Indices |-> 0]
    /\ seen = 0
    /\ phys = PhysicalAllocator_init
    /\ pages = <<>>
    /\ th \in {[op |-> "can_borrow_from", self |-> b, owner |-> o,
                done |-> FALSE, ok |-> FALSE] : b \in ScopeUniverse, o \in ScopeUniverse}

CanBorrowFrom ==
    /\ ~th.done
    /\ th' = [th EXCEPT !.done = TRUE, !.ok = can_borrow_from(th.self, th.owner)]
    /\ UNCHANGED <<ro, wr, pcache, creation_seq, issued, epoch, seen, phys, pages>>

ScopeNext == CanBorrowFrom

ScopeSpec == ScopeInit /\ [][ScopeNext]_vars

(* ------------------------------------------------------------------ *)
(* TransferSpec: transfer_resource from capabilities of different       *)
(* rights.  Two processes bind the page with one of four rights sets    *)
(* (each with TRANSFER; with and without READ, with and without         *)
(* WRITE|MAP), grant, transfer and revoke, one call at a time.          *)
(* ------------------------------------------------------------------ *)
TransferPids == {1, 2}
TransferMaxSeq == 3
TransferChoices ==
    {ALL,
     {READ, TRANSFER, GRANT},
     {WRITE, MAP, TRANSFER},
     {EXECUTE, TRANSFER}}

TransferNext ==
    \/ \E pid \in TransferPids, rid \in Rids, c \in TransferChoices :
          creation_seq < TransferMaxSeq /\ Intro(pid) /\ BindScoped(pid, rid, c, Process)
    \/ \E g \in TransferPids, e \in TransferPids, rid \in Rids :
          creation_seq < TransferMaxSeq /\ Intro(e) /\ GrantReadonly(g, e, rid)
    \/ \E f \in TransferPids, to \in TransferPids, rid \in Rids :
          creation_seq < TransferMaxSeq /\ Intro(to) /\ TransferResource(f, to, rid)
    \/ \E h \in Handles : RevokeCapability(h)

TransferSpec == Init /\ [][TransferNext]_vars

(* ------------------------------------------------------------------ *)
(* CacheSpec: the per-CPU cache under collisions.  Two processes bind   *)
(* and revoke two pages whose (pid, rid) pairs share a cache entry.     *)
(* ------------------------------------------------------------------ *)
CachePids == {1, 2}
CacheMaxSeq == 3

CacheNext ==
    \/ \E pid \in CachePids, rid \in AllRids :
          creation_seq < CacheMaxSeq /\ Intro(pid) /\ BindReadonly(pid, rid)
    \/ \E pid \in CachePids, rid \in AllRids :
          creation_seq < CacheMaxSeq /\ Intro(pid) /\ BindExclusive(pid, rid)
    \/ \E pid \in CachePids, rid \in AllRids, c \in ScopedChoices :
          creation_seq < CacheMaxSeq /\ Intro(pid) /\ BindScoped(pid, rid, c.caps, c.scope)
    \/ \E h \in Handles : RevokeCapability(h)

CacheSpec == Init /\ [][CacheNext]_vars

(* ------------------------------------------------------------------ *)
(* GrantSpec: grants until a capability has MAX_CHILDREN_PER_CAP        *)
(* children.  Three processes bind the page with all rights and grant   *)
(* it to each other; a child that is revoked while the page is borrowed *)
(* stays in children_of as PendingRevoke, and its process can be        *)
(* granted the page again.                                              *)
(* ------------------------------------------------------------------ *)
GrantMaxSeq == 4

GrantNext ==
    \/ \E pid \in Pids, rid \in Rids :
          creation_seq < GrantMaxSeq /\ Intro(pid) /\ BindScoped(pid, rid, ALL, Process)
    \/ \E g \in Pids, e \in Pids, rid \in Rids :
          creation_seq < GrantMaxSeq /\ Intro(e) /\ GrantReadonly(g, e, rid)
    \/ \E g \in Pids, e \in Pids, rid \in Rids :
          creation_seq < GrantMaxSeq /\ Intro(e) /\ GrantExclusive(g, e, rid)
    \/ \E h \in Handles :
          SharedRoom(h, MaxShared) /\ BorrowSharedRo(h, 7, Syscall(7, 1))
    \/ \E h \in Handles : ReleaseShared(h, 7)
    \/ \E h \in Handles : RevokeCapability(h)
    \/ \E h \in Handles : RevokeCapabilityDeferred(h)

GrantSpec == Init /\ [][GrantNext]_vars

(* ------------------------------------------------------------------ *)
(* LockSpec: the two locks.  A call is the sequence of lock events its  *)
(* code makes along one path: "WR.lock" is WR_DATA.lock(), "RO.read"    *)
(* and "RO.write" are RO_DATA.read() and RO_DATA.write(), and a ".drop" *)
(* event is the end of the guard's scope, an explicit drop() or a       *)
(* return.  X_locks is the set of paths of function X, early returns    *)
(* included.  th[t] is the call thread t is in: the events still to     *)
(* come and the guards it holds.  A lock() or write() waits until the   *)
(* lock is free, a read() until there is no writer.                     *)
(* ------------------------------------------------------------------ *)
ReadRegion == <<"RO.read", "RO.read.drop">>
WriteRegion == <<"RO.write", "RO.write.drop">>
\* a path of A followed by a path of B
Cat(A, B) == {a \o b : a \in A, b \in B}

\* idx >= MAX_CAPABILITIES returns before the lock is taken
fast_validate_locks == {<<>>, ReadRegion}
\* an empty cache entry returns before the lock is taken
lookup_validated_locks == {<<>>, ReadRegion}

\* WR_DATA for the whole body; the scan of quick_cache[key] when the key is
\* there; then a return (a Live entry found, or TableFull), or the write
\* block and a return (TooManyChildren), or the write block and the final
\* read of the entry
bind_internal_locks ==
    {<<"WR.lock">> \o scan \o rest \o <<"WR.drop">> :
        scan \in {<<>>, ReadRegion},
        rest \in {<<>>, WriteRegion, WriteRegion \o ReadRegion}}

bind_resource_readonly_locks ==
    {ReadRegion \o ReadRegion} \cup Cat(lookup_validated_locks, bind_internal_locks)

\* grant_*: the lookup under WR_DATA and RO_DATA.read(), an Err or drop(wr)
grant_check_locks == <<"WR.lock">> \o ReadRegion \o <<"WR.drop">>
grant_locks == {grant_check_locks} \cup Cat({grant_check_locks}, bind_internal_locks)

\* transfer_resource up to drop(wr) when the lookup succeeded
transfer_revoke_locks ==
    <<"WR.lock">> \o ReadRegion \o ReadRegion \o WriteRegion \o <<"WR.drop">>
transfer_resource_locks ==
    {grant_check_locks, transfer_revoke_locks}
       \cup Cat({transfer_revoke_locks}, bind_internal_locks)

\* borrow_* with the read guard still held when WR_DATA is requested
borrow_locks_without_drop ==
    {ReadRegion \o <<"RO.read", "WR.lock", "WR.drop", "RO.read.drop">>}

\* borrow_shared_ro, borrow_shared_from_frozen, borrow_exclusive: fast_validate,
\* the read of the entry (a refused scope returns here), drop(ro), WR_DATA
borrow_locks ==
    fast_validate_locks
       \cup {ReadRegion \o ReadRegion,
             ReadRegion \o ReadRegion \o <<"WR.lock", "WR.drop">>}

\* release_shared, release_shared_frozen, release_exclusive
release_locks ==
    fast_validate_locks
       \cup {ReadRegion \o ReadRegion \o <<"WR.lock", "WR.drop">>,
             ReadRegion \o ReadRegion \o <<"WR.lock">> \o WriteRegion \o <<"WR.drop">>}

\* freeze_exclusive, unfreeze_exclusive
freeze_locks ==
    fast_validate_locks \cup {ReadRegion \o ReadRegion \o <<"WR.lock", "WR.drop">>}

\* revoke_capability, revoke_capability_deferred
revoke_locks ==
    fast_validate_locks
       \cup {ReadRegion \o <<"WR.lock">> \o WriteRegion \o <<"WR.drop">>}

verify_capability_fast_locks ==
    lookup_validated_locks \cup {ReadRegion \o ReadRegion}

\* the fast path answered true; or it did not, and the scan under WR_DATA
\* returns true or is followed by the scan of the whole table
verify_capability_locks ==
    {ReadRegion \o ReadRegion}
       \cup Cat(verify_capability_fast_locks,
                {<<"WR.lock">> \o ReadRegion \o <<"WR.drop">>,
                 <<"WR.lock">> \o ReadRegion \o <<"WR.drop">> \o ReadRegion,
                 <<"WR.lock", "WR.drop">> \o ReadRegion})

revoke_indices_deterministic_locks ==
    ReadRegion \o <<"WR.lock">> \o WriteRegion \o <<"WR.drop">>
\* on_process_exit, on_thread_exit, on_syscall_return
hook_locks == {<<"WR.lock", "WR.drop">> \o revoke_indices_deterministic_locks}

init_locks == {<<"WR.lock">> \o WriteRegion \o <<"WR.drop">>}
get_stats_locks == {<<"WR.lock", "WR.drop">>}

\* the public functions, each with its paths
LockPaths ==
    [init |-> init_locks,
     bind_resource_readonly |-> bind_resource_readonly_locks,
     bind_resource_exclusive |-> bind_internal_locks,
     bind_resource_scoped |-> bind_internal_locks,
     grant_readonly |-> grant_locks,
     grant_exclusive |-> grant_locks,
     transfer_resource |-> transfer_resource_locks,
     borrow_shared_ro |-> borrow_locks,
     borrow_shared_from_frozen |-> borrow_locks,
     borrow_exclusive |-> borrow_locks,
     release_shared |-> release_locks,
     release_shared_frozen |-> release_locks,
     release_exclusive |-> release_locks,
     freeze_exclusive |-> freeze_locks,
     unfreeze_exclusive |-> freeze_locks,
     revoke_capability |-> revoke_locks,
     revoke_capability_deferred |-> revoke_locks,
     verify_capability_fast |-> verify_capability_fast_locks,
     verify_capability |-> verify_capability_locks,
     on_process_exit |-> hook_locks,
     on_thread_exit |-> hook_locks,
     on_syscall_return |-> hook_locks,
     get_stats |-> get_stats_locks]

\* the guards a thread holds: WR_DATA, read guards and the write guard of RO_DATA
NoGuards == [wr |-> 0, rd |-> 0, wt |-> 0]

\* spin::Mutex::lock, spin::RwLock::read and ::write return when
Available(e) ==
    CASE e = "WR.lock" -> \A u \in DOMAIN th : th[u].guards.wr = 0
      [] e = "RO.read" -> \A u \in DOMAIN th : th[u].guards.wt = 0
      [] e = "RO.write" -> \A u \in DOMAIN th : th[u].guards.wt = 0 /\ th[u].guards.rd = 0
      [] OTHER -> TRUE

GuardsAfter(g, e) ==
    CASE e = "WR.lock" -> [g EXCEPT !.wr = @ + 1]
      [] e = "WR.drop" -> [g EXCEPT !.wr = @ - 1]
      [] e = "RO.read" -> [g EXCEPT !.rd = @ + 1]
      [] e = "RO.read.drop" -> [g EXCEPT !.rd = @ - 1]
      [] e = "RO.write" -> [g EXCEPT !.wt = @ + 1]
      [] e = "RO.write.drop" -> [g EXCEPT !.wt = @ - 1]

Acquires(e) == e \in {"WR.lock", "RO.read", "RO.write"}

\* thread t enters function op and will follow path
LCall(t, op, path) ==
    /\ Idle(t)
    /\ th' = MapPut(th, t, [op |-> op, pc |-> "locks", rest |-> path,
                            guards |-> NoGuards])
    /\ UNCHANGED <<ro, wr, pcache, creation_seq, issued, epoch, seen, phys, pages>>

\* thread t is granted the lock it requests
LAcquire(t) ==
    /\ t \in DOMAIN th /\ th[t].rest # <<>>
    /\ Acquires(Head(th[t].rest)) /\ Available(Head(th[t].rest))
    /\ th' = [th EXCEPT ![t].rest = Tail(@),
                        ![t].guards = GuardsAfter(@, Head(th[t].rest))]
    /\ UNCHANGED <<ro, wr, pcache, creation_seq, issued, epoch, seen, phys, pages>>

\* a guard of thread t goes out of scope
LDrop(t) ==
    /\ t \in DOMAIN th /\ th[t].rest # <<>>
    /\ ~Acquires(Head(th[t].rest))
    /\ th' = [th EXCEPT ![t].rest = Tail(@),
                        ![t].guards = GuardsAfter(@, Head(th[t].rest))]
    /\ UNCHANGED <<ro, wr, pcache, creation_seq, issued, epoch, seen, phys, pages>>

LReturn(t) ==
    /\ t \in DOMAIN th /\ th[t].rest = <<>>
    /\ th' = MapDel(th, t)
    /\ UNCHANGED <<ro, wr, pcache, creation_seq, issued, epoch, seen, phys, pages>>

LockNext ==
    \/ \E t \in CThreads, op \in DOMAIN LockPaths : \E path \in LockPaths[op] :
          LCall(t, op, path)
    \/ \E t \in CThreads : LAcquire(t)
    \/ \E t \in CThreads : LDrop(t)
    \/ \E t \in CThreads : LReturn(t)

LockSpec == Init /\ [][LockNext]_vars

(* ------------------------------------------------------------------ *)
(* RaceSpec: the borrow API next to bind and revoke.  A borrow, release, *)
(* freeze or unfreeze is three regions: the RO_DATA.read() inside        *)
(* fast_validate, the RO_DATA.read() that copies the entry e, and the    *)
(* WR_DATA.lock() under which the ResourceBorrowState method runs.       *)
(* ------------------------------------------------------------------ *)
RacePids == {1, 2}
RaceMaxSeq == 2
RaceMaxFrozen == 1
RaceOps == {"borrow_shared_ro", "borrow_exclusive", "release_shared",
            "release_exclusive", "freeze_exclusive", "unfreeze_exclusive"}

\* `fast_validate(h)?`
CBorrowValidate(t, op, h, tid, borrow_scope) ==
    /\ Idle(t)
    /\ Step(t, State, creation_seq,
            IF fast_validate(ro, h) # "Ok" THEN <<>>
            ELSE [op |-> op, pc |-> "entry", h |-> h, tid |-> tid,
                  scope |-> borrow_scope, e |-> CapabilityEntry_empty],
            {})

\* `let ro = RO_DATA.read(); let e = ro[h.index() as usize]` and, in borrow_*,
\* the test of borrow_scope against e.scope
CBorrowEntry(t) ==
    /\ At(t, "entry")
    /\ LET j == th[t]
           e == ro[j.h.index]
       IN Step(t, State, creation_seq,
               IF j.op \in {"borrow_shared_ro", "borrow_exclusive"}
                  /\ ~can_borrow_from(j.scope, e.scope)
               THEN <<>>
               ELSE [j EXCEPT !.pc = "locked", !.e = e],
               {})

\* the region under WR_DATA of the call j
borrow_api_locked(s, j) ==
    CASE j.op = "borrow_shared_ro" -> borrow_shared_locked(s, j.e, j.h, j.tid)
      [] j.op = "borrow_exclusive" -> borrow_exclusive_locked(s, j.e, j.h, j.tid, j.scope)
      [] j.op = "release_shared" -> release_shared_locked(s, j.e, j.h, j.tid)
      [] j.op = "release_exclusive" -> release_exclusive_locked(s, j.e, j.h, j.tid)
      [] j.op = "freeze_exclusive" -> freeze_locked(s, j.e, j.h, j.tid)
      [] j.op = "unfreeze_exclusive" -> unfreeze_locked(s, j.e, j.h, j.tid)

CBorrowLocked(t) ==
    /\ At(t, "locked")
    /\ Step(t, borrow_api_locked(State, th[t]).s, creation_seq, <<>>, {})

RaceNext ==
    \/ \E t \in CThreads, pid \in RacePids, rid \in Rids :
          creation_seq < RaceMaxSeq /\ Intro(pid) /\ CBindExclusiveFetch(t, pid, rid)
    \/ \E t \in CThreads : CBindInternal(t)
    \/ \E t \in CThreads, h \in Handles : CRevokeValidate(t, h)
    \/ \E t \in CThreads : CRevokeDfs(t)
    \/ \E t \in CThreads, op \in RaceOps, h \in Handles :
          FreezeRoom(h, RaceMaxFrozen) /\ CBorrowValidate(t, op, h, 7, Syscall(7, 1))
    \/ \E t \in CThreads : CBorrowEntry(t)
    \/ \E t \in CThreads : CBorrowLocked(t)

RaceSpec == Init /\ [][RaceNext]_vars

(* ------------------------------------------------------------------ *)
(* PhysSpec: alloc_raw and free_raw of two threads, one atomic access   *)
(* of the allocator per step.  pages lists the allocations handed out:  *)
(* [addr, pid, freed], freed once pid has called free_raw(pid, addr)    *)
(* for it.  A process frees the allocations it holds, each once; any    *)
(* other free_raw it calls is one the checks of free_raw refuse.        *)
(* ------------------------------------------------------------------ *)
PhysPids == {1, 2}
\* the addresses free_raw is called with: one below the region, its pages,
\* one inside a page, and the first page beyond total_pages
FreeAddrs == {0, PhysBase + 1, PhysBase + TotalPages * PAGE_SIZE} \cup PageAddrs
PhysMaxAllocs == 4

\* the allocator's state stays as it is, the capability table too
PhysStep(t, a, job, handed) ==
    /\ phys' = a
    /\ th' = IF job = <<>> THEN MapDel(th, t) ELSE MapPut(th, t, job)
    /\ pages' = handed
    /\ UNCHANGED <<ro, wr, pcache, creation_seq, issued, epoch, seen>>

\* the next word of the scan, or the end of the function: `None`
alloc_next_word(j) ==
    IF j.word_idx + 1 >= BITMAP_SIZE THEN <<>>
    ELSE [j EXCEPT !.pc = "load", !.word_idx = @ + 1]

PAllocCall(t, pid) ==
    /\ Idle(t)
    /\ PhysStep(t, phys,
                [op |-> "alloc_raw", pc |-> "load", pid |-> pid, word_idx |-> 0,
                 word |-> {}, page_idx |-> 0],
                pages)

\* `let mut word = allocator.bitmap[word_idx].load(Ordering::Acquire)`
PAllocLoad(t) ==
    /\ At(t, "load")
    /\ LET j == th[t]
           word == phys.bitmap[j.word_idx]
       IN PhysStep(t, phys,
                   IF word = FullWord THEN alloc_next_word(j)
                   ELSE [j EXCEPT !.pc = "cas", !.word = word],
                   pages)

\* alloc_raw with a plain store of new_word in place of the compare_exchange
PAllocStoreUnchecked(t) ==
    /\ At(t, "cas")
    /\ LET j == th[t]
           bit == first_clear(j.word)
           page_idx == j.word_idx * WORD_BITS + bit
       IN PhysStep(t, [phys EXCEPT !.bitmap[j.word_idx] = j.word \cup {bit}],
                   IF page_idx >= phys.total_pages THEN <<>>
                   ELSE [j EXCEPT !.pc = "owner", !.page_idx = page_idx],
                   pages)

\* the compare_exchange on the first clear bit of `word`
PAllocCas(t) ==
    /\ At(t, "cas")
    /\ LET j == th[t]
           bit == first_clear(j.word)
           current == phys.bitmap[j.word_idx]
           page_idx == j.word_idx * WORD_BITS + bit
       IN IF current = j.word
          THEN PhysStep(t, [phys EXCEPT !.bitmap[j.word_idx] = j.word \cup {bit}],
                        IF page_idx >= phys.total_pages THEN <<>>
                        ELSE [j EXCEPT !.pc = "owner", !.page_idx = page_idx],
                        pages)
          ELSE PhysStep(t, phys,
                        IF current = FullWord THEN alloc_next_word(j)
                        ELSE [j EXCEPT !.word = current],
                        pages)

\* `allocator.owners[page_idx].0.store(pid, Ordering::Release)`
PAllocOwner(t) ==
    /\ At(t, "owner")
    /\ PhysStep(t, [phys EXCEPT !.owners[th[t].page_idx] = th[t].pid],
                [th[t] EXCEPT !.pc = "sub"], pages)

\* `allocator.free_pages.fetch_sub(1, Ordering::AcqRel)` and the return
PAllocSub(t) ==
    /\ At(t, "sub")
    /\ LET j == th[t]
       IN PhysStep(t, [phys EXCEPT !.free_pages = @ - 1], <<>>,
                   Append(pages, [addr |-> phys.base + j.page_idx * PAGE_SIZE,
                                  pid |-> j.pid, freed |-> FALSE]))

\* pid gives up its oldest allocation of addr that it has not freed yet
mark_freed(handed, pid, addr) ==
    LET pos == position({n \in DOMAIN handed :
                   handed[n].addr = addr /\ handed[n].pid = pid /\ ~handed[n].freed})
    IN IF pos = 0 THEN handed ELSE [handed EXCEPT ![pos].freed = TRUE]

\* free_raw up to `let owner = allocator.owners[page_idx].0.load(..)` and the
\* test of it
PFreeCall(t, pid, addr) ==
    /\ Idle(t)
    /\ PhysStep(t, phys,
                IF free_check(phys, pid, addr) # "Ok" THEN <<>>
                ELSE [op |-> "free_raw", pc |-> "store", pid |-> pid,
                      page_idx |-> (addr - phys.base) \div PAGE_SIZE],
                mark_freed(pages, pid, addr))

\* `allocator.owners[page_idx].0.store(0, Ordering::Release)`
PFreeStore(t) ==
    /\ At(t, "store")
    /\ PhysStep(t, [phys EXCEPT !.owners[th[t].page_idx] = 0],
                [th[t] EXCEPT !.pc = "and"], pages)

\* `allocator.bitmap[word_idx].fetch_and(!(1 << bit), Ordering::AcqRel)`
PFreeAnd(t) ==
    /\ At(t, "and")
    /\ LET page_idx == th[t].page_idx
       IN PhysStep(t, [phys EXCEPT !.bitmap[page_idx \div WORD_BITS] =
                                       @ \ {page_idx % WORD_BITS}],
                   [th[t] EXCEPT !.pc = "add"], pages)

\* `allocator.free_pages.fetch_add(1, Ordering::AcqRel)` and the return
PFreeAdd(t) ==
    /\ At(t, "add")
    /\ PhysStep(t, [phys EXCEPT !.free_pages = @ + 1], <<>>, pages)

PhysNext ==
    \/ \E t \in CThreads, pid \in PhysPids :
          Len(pages) + Cardinality({u \in DOMAIN th : th[u].op = "alloc_raw"})
              < PhysMaxAllocs
          /\ PAllocCall(t, pid)
    \/ \E t \in CThreads : PAllocLoad(t)
    \/ \E t \in CThreads : PAllocCas(t)
    \/ \E t \in CThreads : PAllocOwner(t)
    \/ \E t \in CThreads : PAllocSub(t)
    \/ \E t \in CThreads : \E n \in DOMAIN pages :
          ~pages[n].freed /\ PFreeCall(t, pages[n].pid, pages[n].addr)
    \/ \E t \in CThreads, pid \in PhysPids, addr \in FreeAddrs :
          free_check(phys, pid, addr) # "Ok" /\ PFreeCall(t, pid, addr)
    \/ \E t \in CThreads : PFreeStore(t)
    \/ \E t \in CThreads : PFreeAnd(t)
    \/ \E t \in CThreads : PFreeAdd(t)

PhysSpec == Init /\ [][PhysNext]_vars

(* ------------------------------------------------------------------ *)
(* AllocSpec: alloc_raw and free_raw, one call at a time, with every    *)
(* pid (0, the owner word of a free page, included) and every address   *)
(* of FreeAddrs.  pages is not used.                                    *)
(* ------------------------------------------------------------------ *)
\* cap on free_pages, which a free_raw(0, addr) of a free page raises
MaxFreePages == 4

AllocRaw(pid) ==
    /\ phys' = alloc_raw(phys, pid).phys
    /\ UNCHANGED <<ro, wr, pcache, creation_seq, issued, epoch, th, seen, pages>>

FreeRaw(pid, addr) ==
    /\ phys' = free_raw(phys, pid, addr).phys
    /\ UNCHANGED <<ro, wr, pcache, creation_seq, issued, epoch, th, seen, pages>>

AllocNext ==
    \/ \E pid \in PhysPids \cup {0} : AllocRaw(pid)
    \/ \E pid \in PhysPids \cup {0}, addr \in FreeAddrs :
          phys.free_pages < MaxFreePages /\ FreeRaw(pid, addr)

AllocSpec == Init /\ [][AllocNext]_vars

(* ------------------------------------------------------------------ *)
(* Ownership API of the LibOS interface                                 *)
(* (srv/libos_interface/ownership_api.rs).  Its functions are operators *)
(* on s = [ro, wr, pc, log, phys]: the capability table together with   *)
(* the physical allocator.                                              *)
(* ------------------------------------------------------------------ *)
\* mm::physical::alloc_page(): a page of the allocator, no owner recorded
alloc_page(a) == alloc_raw(a, 0)
\* mm::physical::free_page(addr): the page goes back to the allocator
free_page(a, addr) == free_raw(a, 0, addr).phys

alloc_physical_page(s) ==
    LET r == alloc_page(s.phys)
    IN [s |-> [s EXCEPT !.phys = r.phys], addr |-> r.addr]

free_physical_page(s, addr) == [s EXCEPT !.phys = free_page(@, addr)]

from_page_addr(addr) == ResourceId("PhysicalPage", addr)

\* the objects of the API: an OwnedPage, a BorrowedPageRO or BorrowedPageRW
\* of the page at addr, a PageVec of OwnedPages
Object(kind, handle, addr, pid, tid, elems) ==
    [kind |-> kind, handle |-> handle, addr |-> addr, pid |-> pid, tid |-> tid,
     elems |-> elems]
NoObject == Object("None", NoHandle, NoAddr, 0, 0, <<>>)

\* OwnedPage::alloc; seq is CREATION_SEQ before and after
OwnedPage_alloc(s, pid, seq) ==
    LET p == alloc_physical_page(s)
    IN IF p.addr = NoAddr
       THEN [s |-> p.s, res |-> "OutOfMemory", page |-> NoObject, seq |-> seq]
       ELSE LET b == bind_resource_exclusive(p.s, pid, from_page_addr(p.addr), seq)
            IN IF b.res # "Ok"
               THEN [s |-> b.s, res |-> b.res, page |-> NoObject, seq |-> seq + 1]
               ELSE [s |-> b.s, res |-> "Ok", seq |-> seq + 1,
                     page |-> Object("OwnedPage", b.h, p.addr, pid, 0, <<>>)]

\* Drop for OwnedPage
OwnedPage_drop(s, page) ==
    free_physical_page(revoke_capability(s, page.handle).s, page.addr)

\* OwnedPage::revoke_now: forgotten when the revoke succeeds, dropped at the
\* early return otherwise
OwnedPage_revoke_now(s, page) ==
    LET r == revoke_capability(s, page.handle)
    IN IF r.res = "Ok" THEN r
       ELSE [s |-> OwnedPage_drop(r.s, page), res |-> r.res]

OwnedPage_revoke_deferred(s, page) ==
    LET r == revoke_capability_deferred(s, page.handle)
    IN IF r.res = "Ok" THEN r
       ELSE [s |-> OwnedPage_drop(r.s, page), res |-> r.res]

\* OwnedPage::as_readonly
OwnedPage_as_readonly(s, page, tid) ==
    LET f == freeze_exclusive(s, page.handle, tid)
    IN IF f.res # "Ok" THEN [s |-> f.s, res |-> f.res, b |-> NoObject]
       ELSE [s |-> f.s, res |-> "Ok",
             b |-> Object("BorrowedPageRO", page.handle, page.addr, page.pid, tid, <<>>)]

\* BorrowedPageRO::borrow
BorrowedPageRO_borrow(s, page, tid, scope) ==
    LET f == freeze_exclusive(s, page.handle, tid)
    IN IF f.res # "Ok" THEN [s |-> f.s, res |-> f.res, b |-> NoObject]
       ELSE LET r == borrow_shared_ro(f.s, page.handle, tid, scope)
            IN IF r.res # "Ok" THEN [s |-> r.s, res |-> r.res, b |-> NoObject]
               ELSE [s |-> r.s, res |-> "Ok",
                     b |-> Object("BorrowedPageRO", page.handle, page.addr,
                                  page.pid, tid, <<>>)]

\* Drop for BorrowedPageRO
BorrowedPageRO_drop(s, b) == release_shared_frozen(s, b.handle, b.tid).s

\* BorrowedPageRW::borrow_mut: the handle of the borrow is rebuilt from the
\* page's index and generation with the scope of the borrow
BorrowedPageRW_borrow_mut(s, page, tid, scope) ==
    LET r == borrow_exclusive(s, page.handle, tid, scope)
    IN IF r.res # "Ok" THEN [s |-> r.s, res |-> r.res, b |-> NoObject]
       ELSE [s |-> r.s, res |-> "Ok",
             b |-> Object("BorrowedPageRW",
                          CapabilityHandle(page.handle.index, page.handle.generation,
                                           scope, 0),
                          page.addr, page.pid, tid, <<>>)]

\* Drop for BorrowedPageRW
BorrowedPageRW_drop(s, b) == release_exclusive(s, b.handle, b.tid).s

RECURSIVE alloc_pages_from(_, _, _, _, _)
\* the loop of Syscall::alloc_pages with `count` rounds left
alloc_pages_from(s, pid, count, seq, elems) ==
    IF count = 0
    THEN [s |-> s, res |-> "Ok", seq |-> seq,
          vec |-> Object("PageVec", NoHandle, NoAddr, pid, 0, elems)]
    ELSE LET a == OwnedPage_alloc(s, pid, seq)
         IN IF a.res = "Ok"
            THEN alloc_pages_from(a.s, pid, count - 1, a.seq, Append(elems, a.page))
            ELSE IF elems = <<>>
            THEN [s |-> a.s, res |-> a.res, seq |-> a.seq, vec |-> NoObject]
            ELSE [s |-> a.s, res |-> "Ok", seq |-> a.seq,
                  vec |-> Object("PageVec", NoHandle, NoAddr, pid, 0, elems)]

Syscall_alloc_pages(s, pid, count, seq) == alloc_pages_from(s, pid, count, seq, <<>>)

RECURSIVE drop_elems(_, _, _)
\* Drop of a PageVec: its OwnedPages are dropped in order
drop_elems(s, elems, i) ==
    IF i > Len(elems) THEN s
    ELSE drop_elems(OwnedPage_drop(s, elems[i]), elems, i + 1)

PageVec_drop(s, vec) == drop_elems(s, vec.elems, 1)

(* ------------------------------------------------------------------ *)
(* PageSpec: one caller of the ownership API.  Two processes allocate   *)
(* pages and page vectors, drop and revoke them, thread 7 borrows them  *)
(* through BorrowedPageRO and BorrowedPageRW and through the handle     *)
(* OwnedPage::capability lends, and processes exit.  `pages` holds the  *)
(* objects alive; the borrow checker's rules are the guards: a page is  *)
(* moved or dropped only while no object borrows it, and lent out       *)
(* mutably only to one object at a time.                                *)
(* ------------------------------------------------------------------ *)
PagePids == {1, 2}
PageMaxSeq == 2
PageMaxFrozen == 2
PageMaxCount == 2
PageScopes == {Process, Thread(7), Syscall(7, 1)}

PageState == [ro |-> ro, wr |-> wr, pc |-> pcache, log |-> <<>>, phys |-> phys]

\* a call of the API completes
PageDone(s, seq, objs) ==
    /\ CommitTable(s, seq, {})
    /\ phys' = s.phys
    /\ pages' = objs
    /\ UNCHANGED th

RemoveAt(seq, i) == SubSeq(seq, 1, i - 1) \o SubSeq(seq, i + 1, Len(seq))

IsPage(i) == pages[i].kind = "OwnedPage"
\* the objects that borrow the page at index i
BorrowsOf(i) ==
    {j \in DOMAIN pages : /\ pages[j].kind \in {"BorrowedPageRO", "BorrowedPageRW"}
                          /\ pages[j].addr = pages[i].addr}
MutBorrowsOf(i) == {j \in BorrowsOf(i) : pages[j].kind = "BorrowedPageRW"}

\* the OwnedPages a reference can be taken to: those held directly and the
\* elements of the vectors (PageVec::get)
Lendable ==
    {pages[i] : i \in {j \in DOMAIN pages : IsPage(j) /\ MutBorrowsOf(j) = {}}}
    \cup UNION {{pages[i].elems[k] : k \in DOMAIN pages[i].elems} :
                   i \in {j \in DOMAIN pages : pages[j].kind = "PageVec"}}

AllocPage(pid) ==
    LET a == OwnedPage_alloc(PageState, pid, creation_seq)
    IN PageDone(a.s, a.seq, IF a.res = "Ok" THEN Append(pages, a.page) ELSE pages)

AllocPages(pid, count) ==
    LET a == Syscall_alloc_pages(PageState, pid, count, creation_seq)
    IN PageDone(a.s, a.seq, IF a.res = "Ok" THEN Append(pages, a.vec) ELSE pages)

DropOwnedPage(i) ==
    /\ IsPage(i) /\ BorrowsOf(i) = {}
    /\ PageDone(OwnedPage_drop(PageState, pages[i]), creation_seq, RemoveAt(pages, i))

DropPageVec(i) ==
    /\ pages[i].kind = "PageVec"
    /\ PageDone(PageVec_drop(PageState, pages[i]), creation_seq, RemoveAt(pages, i))

RevokeNow(i) ==
    /\ IsPage(i) /\ BorrowsOf(i) = {}
    /\ PageDone(OwnedPage_revoke_now(PageState, pages[i]).s, creation_seq,
                RemoveAt(pages, i))

RevokeDeferred(i) ==
    /\ IsPage(i) /\ BorrowsOf(i) = {}
    /\ PageDone(OwnedPage_revoke_deferred(PageState, pages[i]).s, creation_seq,
                RemoveAt(pages, i))

AsReadonly(i, tid) ==
    /\ IsPage(i) /\ MutBorrowsOf(i) = {}
    /\ LET r == OwnedPage_as_readonly(PageState, pages[i], tid)
       IN PageDone(r.s, creation_seq,
                   IF r.res = "Ok" THEN Append(pages, r.b) ELSE pages)

BorrowRO(i, tid, scope) ==
    /\ IsPage(i) /\ MutBorrowsOf(i) = {}
    /\ LET r == BorrowedPageRO_borrow(PageState, pages[i], tid, scope)
       IN PageDone(r.s, creation_seq,
                   IF r.res = "Ok" THEN Append(pages, r.b) ELSE pages)

DropBorrowedPageRO(i) ==
    /\ pages[i].kind = "BorrowedPageRO"
    /\ PageDone(BorrowedPageRO_drop(PageState, pages[i]), creation_seq,
                RemoveAt(pages, i))

BorrowMut(i, tid, scope) ==
    /\ IsPage(i) /\ BorrowsOf(i) = {}
    /\ LET r == BorrowedPageRW_borrow_mut(PageState, pages[i], tid, scope)
       IN PageDone(r.s, creation_seq,
                   IF r.res = "Ok" THEN Append(pages, r.b) ELSE pages)

DropBorrowedPageRW(i) ==
    /\ pages[i].kind = "BorrowedPageRW"
    /\ PageDone(BorrowedPageRW_drop(PageState, pages[i]), creation_seq,
                RemoveAt(pages, i))

\* borrow_exclusive and release_exclusive on page.capability()
CapBorrowExclusive(page, tid, scope) ==
    PageDone(borrow_exclusive(PageState, page.handle, tid, scope).s, creation_seq, pages)

CapReleaseExclusive(page, tid) ==
    PageDone(release_exclusive(PageState, page.handle, tid).s, creation_seq, pages)

PageProcessExit(pid) ==
    PageDone(on_process_exit(PageState, pid).s, creation_seq, pages)

PageNext ==
    \/ \E pid \in PagePids :
          creation_seq < PageMaxSeq /\ Intro(pid) /\ AllocPage(pid)
    \/ \E pid \in PagePids, count \in 1 .. PageMaxCount :
          creation_seq + count <= PageMaxSeq /\ Intro(pid) /\ AllocPages(pid, count)
    \/ \E i \in DOMAIN pages : DropOwnedPage(i)
    \/ \E i \in DOMAIN pages : DropPageVec(i)
    \/ \E i \in DOMAIN pages : RevokeNow(i)
    \/ \E i \in DOMAIN pages : RevokeDeferred(i)
    \/ \E i \in DOMAIN pages :
          IsPage(i) /\ FreezeRoom(pages[i].handle, PageMaxFrozen) /\ AsReadonly(i, 7)
    \/ \E i \in DOMAIN pages :
          IsPage(i) /\ FreezeRoom(pages[i].handle, PageMaxFrozen)
          /\ BorrowRO(i, 7, Process)
    \/ \E i \in DOMAIN pages : DropBorrowedPageRO(i)
    \/ \E i \in DOMAIN pages, scope \in PageScopes : BorrowMut(i, 7, scope)
    \/ \E i \in DOMAIN pages : DropBorrowedPageRW(i)
    \/ \E page \in Lendable : CapBorrowExclusive(page, 7, Process)
    \/ \E page \in Lendable : CapReleaseExclusive(page, 7)
    \/ \E pid \in PagePids : PageProcessExit(pid)

PageSpec == Init /\ [][PageNext]_vars

(* ------------------------------------------------------------------ *)
(* SharedSpec: SharedPage.  `pages` holds one record per Arc: the       *)
(* SharedPageInner, Arc::strong_count, the number of SharedPage values  *)
(* of this Arc the callers hold, and the number of times a drop has     *)
(* revoked its capability and freed its page.  Two threads share and    *)
(* drop; a drop is three steps: the read of strong_count, the body of   *)
(* the `if` under the inner mutex, and the drop of the Arc field.       *)
(* ------------------------------------------------------------------ *)
SharedPids == {1, 2}
SharedMaxSeq == 2
SharedMaxRefs == 3

SharedArc(inner, strong, held, freed) ==
    [inner |-> inner, strong |-> strong, held |-> held, freed |-> freed]

SharedStep(t, s, seq, job, arcs) ==
    /\ CommitTable(s, seq, {})
    /\ phys' = s.phys
    /\ th' = IF job = <<>> THEN MapDel(th, t) ELSE MapPut(th, t, job)
    /\ pages' = arcs

\* SharedPage::from_owned: the page is forgotten, its handle downgraded
SharedPage_from_owned(page) ==
    SharedArc(Object("SharedPageInner", page.handle, page.addr, page.pid, 0, <<>>),
              1, 1, 0)

\* Syscall::alloc_shared_page
AllocSharedPage(t, pid) ==
    /\ Idle(t)
    /\ LET a == OwnedPage_alloc(PageState, pid, creation_seq)
       IN SharedStep(t, a.s, a.seq, <<>>,
                     IF a.res = "Ok" THEN Append(pages, SharedPage_from_owned(a.page))
                     ELSE pages)

\* SharedPage::share / clone: Arc::clone
Share(t, j) ==
    /\ Idle(t)
    /\ pages[j].held > 0
    /\ SharedStep(t, PageState, creation_seq, <<>>,
                  [pages EXCEPT ![j].strong = @ + 1, ![j].held = @ + 1])

\* a SharedPage of Arc j goes out of scope on thread t
SDropCall(t, j) ==
    /\ Idle(t)
    /\ pages[j].held > 0
    /\ SharedStep(t, PageState, creation_seq,
                  [op |-> "drop", pc |-> "strong_count", arc |-> j],
                  [pages EXCEPT ![j].held = @ - 1])

\* if Arc::strong_count(&self.inner) == 1
SDropCount(t) ==
    /\ At(t, "strong_count")
    /\ SharedStep(t, PageState, creation_seq,
                  [th[t] EXCEPT !.pc = IF pages[th[t].arc].strong = 1
                                       THEN "revoke" ELSE "release"],
                  pages)

\* let inner = lock(); let _ = revoke_capability(&inner.handle);
\* free_physical_page(inner.addr)
SDropRevoke(t) ==
    /\ At(t, "revoke")
    /\ LET j == th[t].arc
           r == revoke_capability(PageState, pages[j].inner.handle)
       IN SharedStep(t, free_physical_page(r.s, pages[j].inner.addr), creation_seq,
                     [th[t] EXCEPT !.pc = "release"],
                     [pages EXCEPT ![j].freed = @ + 1])

\* the field `inner` is dropped: the strong count goes down by one
SDropRelease(t) ==
    /\ At(t, "release")
    /\ SharedStep(t, PageState, creation_seq, <<>>,
                  [pages EXCEPT ![th[t].arc].strong = @ - 1])

SharedNext ==
    \/ \E t \in CThreads, pid \in SharedPids :
          creation_seq < SharedMaxSeq /\ Intro(pid) /\ AllocSharedPage(t, pid)
    \/ \E t \in CThreads, j \in DOMAIN pages :
          pages[j].strong < SharedMaxRefs /\ Share(t, j)
    \/ \E t \in CThreads, j \in DOMAIN pages : SDropCall(t, j)
    \/ \E t \in CThreads : SDropCount(t)
    \/ \E t \in CThreads : SDropRevoke(t)
    \/ \E t \in CThreads : SDropRelease(t)

SharedSpec == Init /\ [][SharedNext]_vars

(* ------------------------------------------------------------------ *)
(* OwnerSpec: the ways to an object that frees a page.  Two processes   *)
(* allocate pages, make OwnedPages from addresses and from grants, turn *)
(* OwnedPages into SharedPages, grant from SharedPages and drop the     *)
(* objects, one call at a time; a process may also have bound a page's  *)
(* resource with all rights (alloc_page binds READ, WRITE and MAP only, *)
(* and a grant needs GRANT).  `pages` holds the living OwnedPages and,  *)
(* for a SharedPage (never cloned here, so the only one of its Arc),    *)
(* its SharedPageInner.                                                 *)
(* ------------------------------------------------------------------ *)
OwnerPids == {1, 2}
OwnerMaxSeq == 4
OwnerMaxObjects == 3

\* OwnedPage::from_addr (Syscall::page_from_addr)
OwnedPage_from_addr(s, pid, addr, seq) ==
    IF ~verify_capability_fast(s, pid, from_page_addr(addr), RW \cup {MAP})
    THEN [s |-> s, res |-> "PermissionDenied", page |-> NoObject, seq |-> seq]
    ELSE LET b == bind_resource_exclusive(s, pid, from_page_addr(addr), seq)
         IN [s |-> b.s, res |-> b.res, seq |-> seq + 1,
             page |-> IF b.res = "Ok" THEN Object("OwnedPage", b.h, addr, pid, 0, <<>>)
                      ELSE NoObject]

\* Syscall::grant_page_readonly / grant_page_exclusive: r is the result of
\* grant_readonly / grant_exclusive
granted_page(r, grantee_pid, addr) ==
    [s |-> r.s, res |-> r.res, seq |-> r.seq,
     page |-> IF r.res = "Ok" THEN Object("OwnedPage", r.h, addr, grantee_pid, 0, <<>>)
              ELSE NoObject]

Syscall_grant_page_readonly(s, grantor_pid, grantee_pid, addr, seq) ==
    granted_page(grant_readonly(s, seq, grantor_pid, grantee_pid, from_page_addr(addr)),
                 grantee_pid, addr)

Syscall_grant_page_exclusive(s, grantor_pid, grantee_pid, addr, seq) ==
    granted_page(grant_exclusive(s, seq, grantor_pid, grantee_pid, from_page_addr(addr)),
                 grantee_pid, addr)

\* SharedPage::grant_readonly: a SharedPage with an Arc of its own
SharedPage_grant_readonly(s, inner, grantee_pid, seq) ==
    LET r == grant_readonly(s, seq, inner.pid, grantee_pid, from_page_addr(inner.addr))
    IN [s |-> r.s, res |-> r.res, seq |-> r.seq,
        page |-> IF r.res = "Ok"
                 THEN Object("SharedPageInner", r.h, inner.addr, grantee_pid, 0, <<>>)
                 ELSE NoObject]

\* Drop for SharedPage when Arc::strong_count is 1
SharedPage_drop(s, inner) ==
    free_physical_page(revoke_capability(s, inner.handle).s, inner.addr)

\* the objects whose destructor frees a page
Frees(i) == pages[i].kind \in {"OwnedPage", "SharedPageInner"}

OwnerDone(r) ==
    PageDone(r.s, r.seq, IF r.res = "Ok" THEN Append(pages, r.page) ELSE pages)

PageFromAddr(pid, addr) ==
    OwnerDone(OwnedPage_from_addr(PageState, pid, addr, creation_seq))

GrantPageReadonly(grantor_pid, grantee_pid, addr) ==
    OwnerDone(Syscall_grant_page_readonly(PageState, grantor_pid, grantee_pid, addr,
                                          creation_seq))

GrantPageExclusive(grantor_pid, grantee_pid, addr) ==
    OwnerDone(Syscall_grant_page_exclusive(PageState, grantor_pid, grantee_pid, addr,
                                           creation_seq))

FromOwned(i) ==
    /\ IsPage(i)
    /\ PageDone(PageState, creation_seq,
                [pages EXCEPT ![i] = SharedPage_from_owned(pages[i]).inner])

SharedGrantReadonly(i, grantee_pid) ==
    /\ pages[i].kind = "SharedPageInner"
    /\ OwnerDone(SharedPage_grant_readonly(PageState, pages[i], grantee_pid, creation_seq))

DropSharedPage(i) ==
    /\ pages[i].kind = "SharedPageInner"
    /\ PageDone(SharedPage_drop(PageState, pages[i]), creation_seq, RemoveAt(pages, i))

OwnerNext ==
    \/ \E pid \in OwnerPids, addr \in PageAddrs :
          /\ creation_seq < OwnerMaxSeq /\ Intro(pid)
          /\ BindScoped(pid, from_page_addr(addr), ALL, Process)
    \/ \E pid \in OwnerPids :
          /\ creation_seq < OwnerMaxSeq /\ Len(pages) < OwnerMaxObjects
          /\ Intro(pid) /\ AllocPage(pid)
    \/ \E pid \in OwnerPids, addr \in PageAddrs :
          /\ creation_seq < OwnerMaxSeq /\ Len(pages) < OwnerMaxObjects
          /\ Intro(pid) /\ PageFromAddr(pid, addr)
    \/ \E g \in OwnerPids, e \in OwnerPids, addr \in PageAddrs :
          /\ creation_seq < OwnerMaxSeq /\ Len(pages) < OwnerMaxObjects
          /\ Intro(e) /\ GrantPageReadonly(g, e, addr)
    \/ \E g \in OwnerPids, e \in OwnerPids, addr \in PageAddrs :
          /\ creation_seq < OwnerMaxSeq /\ Len(pages) < OwnerMaxObjects
          /\ Intro(e) /\ GrantPageExclusive(g, e, addr)
    \/ \E i \in DOMAIN pages : FromOwned(i)
    \/ \E i \in DOMAIN pages, e \in OwnerPids :
          /\ creation_seq < OwnerMaxSeq /\ Len(pages) < OwnerMaxObjects
          /\ Intro(e) /\ SharedGrantReadonly(i, e)
    \/ \E i \in DOMAIN pages : DropOwnedPage(i)
    \/ \E i \in DOMAIN pages : DropSharedPage(i)

OwnerSpec == Init /\ [][OwnerNext]_vars

(* ------------------------------------------------------------------ *)
(* TableSpec: ResourceBorrowState on its own.  th is the borrow state   *)
(* of one resource together with the last request made of it: the       *)
(* method, its arguments, the state it found and its answer.  Threads 7 *)
(* and 8 make every request with capabilities 0 and 1.                  *)
(* ------------------------------------------------------------------ *)
TableCaps == {0, 1}
TableRights == {{READ}, {WRITE, MAP}, {READ, WRITE}, RW \cup {MAP}}
TableTypes == {"PhysicalPage", "Device", "Custom"}
TableScopes == {Process, Thread(7)}

Request(op, cap, tid, scope, caps_bits, rty, before, res) ==
    [op |-> op, cap |-> cap, tid |-> tid, scope |-> scope, caps |-> caps_bits,
     rty |-> rty, before |-> before, res |-> res]

TableInit ==
    /\ ro = [i \in Indices |-> CapabilityEntry_empty]
    /\ wr = WriteData_init
    /\ pcache = PerCpuCache_new
    /\ creation_seq = 0
    /\ issued = {}
    /\ epoch = [i \in Indices |-> 0]
    /\ seen = 0
    /\ phys = PhysicalAllocator_init
    /\ pages = <<>>
    /\ th = [bs |-> ResourceBorrowState_new,
             last |-> Request("", 0, 0, Permanent, {}, "Custom",
                              ResourceBorrowState_new, "")]

\* a method of ResourceBorrowState answered r
TableStep(op, cap, tid, scope, caps_bits, rty, r) ==
    /\ th' = [bs |-> r.bs,
              last |-> Request(op, cap, tid, scope, caps_bits, rty, th.bs, r.res)]
    /\ UNCHANGED <<ro, wr, pcache, creation_seq, issued, epoch, seen, phys, pages>>

TryShared(cap, tid, caps_bits) ==
    TableStep("try_shared", cap, tid, Permanent, caps_bits, "Custom",
              try_shared(th.bs, cap, tid, caps_bits))

TryExclusive(cap, tid, scope, caps_bits, rty) ==
    TableStep("try_exclusive", cap, tid, scope, caps_bits, rty,
              try_exclusive(th.bs, cap, tid, scope, caps_bits, rty))

BsReleaseShared(cap, tid) ==
    TableStep("release_shared", cap, tid, Permanent, {}, "Custom",
              bs_release_shared(th.bs, cap, tid))

BsReleaseExclusive(cap, tid) ==
    TableStep("release_exclusive", cap, tid, Permanent, {}, "Custom",
              bs_release_exclusive(th.bs, cap, tid))

Freeze(cap, tid) ==
    TableStep("freeze", cap, tid, Permanent, {}, "Custom", freeze(th.bs, cap, tid))

Unfreeze(cap, tid) ==
    TableStep("unfreeze", cap, tid, Permanent, {}, "Custom", unfreeze(th.bs, cap, tid))

TableNext ==
    \/ \E cap \in TableCaps, tid \in Tids, c \in TableRights : TryShared(cap, tid, c)
    \/ \E cap \in TableCaps, tid \in Tids, sc \in TableScopes, c \in TableRights,
          rty \in TableTypes : TryExclusive(cap, tid, sc, c, rty)
    \/ \E cap \in TableCaps, tid \in Tids : BsReleaseShared(cap, tid)
    \/ \E cap \in TableCaps, tid \in Tids : BsReleaseExclusive(cap, tid)
    \/ \E cap \in TableCaps, tid \in Tids : Freeze(cap, tid)
    \/ \E cap \in TableCaps, tid \in Tids : Unfreeze(cap, tid)

TableSpec == TableInit /\ [][TableNext]_vars

(* ------------------------------------------------------------------ *)
(* The allocator of the LibOS (srv/mm/allocator.rs over srv/mm/         *)
(* ownership.rs): operators on the physical allocator.                  *)
(* ------------------------------------------------------------------ *)
\* mm::ownership::OwnedPage::alloc: `page` is empty for None
mm_OwnedPage_alloc(a, pid) ==
    LET r == alloc_raw(a, pid)
    IN [phys |-> r.phys,
        page |-> IF r.addr = NoAddr THEN <<>> ELSE <<[addr |-> r.addr, pid |-> pid]>>]

\* Drop for mm::ownership::OwnedPage
mm_OwnedPage_drop(a, page) == free_raw(a, page.pid, page.addr).phys

RECURSIVE mm_PageVec_drop(_, _, _)
\* Drop for mm::ownership::PageVec: the pages from position i on are dropped
mm_PageVec_drop(a, vec, i) ==
    IF i > Len(vec) THEN a
    ELSE mm_PageVec_drop(mm_OwnedPage_drop(a, vec[i]), vec, i + 1)

RECURSIVE alloc_pages_leaking(_, _, _, _)
\* the loop without the drop of the vector at the early return
alloc_pages_leaking(a, pid, count, vec) ==
    IF count = 0 THEN [phys |-> a, res |-> "Ok", vec |-> vec]
    ELSE LET p == mm_OwnedPage_alloc(a, pid)
         IN IF p.page # <<>>
            THEN alloc_pages_leaking(p.phys, pid, count - 1, vec \o p.page)
            ELSE [phys |-> p.phys, res |-> "OutOfMemory", vec |-> <<>>]

RECURSIVE alloc_pages_loop(_, _, _, _)
\* the loop of Allocator::alloc_pages with `count` rounds left
alloc_pages_loop(a, pid, count, vec) ==
    IF count = 0 THEN [phys |-> a, res |-> "Ok", vec |-> vec]
    ELSE LET p == mm_OwnedPage_alloc(a, pid)
         IN IF p.page # <<>>
            THEN alloc_pages_loop(p.phys, pid, count - 1, vec \o p.page)
            ELSE [phys |-> mm_PageVec_drop(p.phys, vec, 1), res |-> "OutOfMemory",
                  vec |-> <<>>]

Allocator_alloc_pages(a, pid, count) ==
    IF count = 0 THEN [phys |-> a, res |-> "InvalidSize", vec |-> <<>>]
    ELSE alloc_pages_loop(a, pid, count, <<>>)

(* ------------------------------------------------------------------ *)
(* BatchSpec: Allocators of processes 0, 1 and 2 allocate page vectors  *)
(* and drop them, next to raw alloc_raw and free_raw calls with any      *)
(* pid and address.  pages holds the vectors alive.                     *)
(* ------------------------------------------------------------------ *)
BatchMaxCount == 4
BatchMaxVecs == 2

BatchStep(a, vecs) ==
    /\ phys' = a
    /\ pages' = vecs
    /\ UNCHANGED <<ro, wr, pcache, creation_seq, issued, epoch, th, seen>>

AllocatorAllocPages(pid, count) ==
    LET r == Allocator_alloc_pages(phys, pid, count)
    IN BatchStep(r.phys, IF r.res = "Ok" THEN Append(pages, r.vec) ELSE pages)

DropVec(i) ==
    BatchStep(mm_PageVec_drop(phys, pages[i], 1),
              SubSeq(pages, 1, i - 1) \o SubSeq(pages, i + 1, Len(pages)))

BatchNext ==
    \/ \E pid \in PhysPids \cup {0}, count \in 0 .. BatchMaxCount :
          Len(pages) < BatchMaxVecs /\ AllocatorAllocPages(pid, count)
    \/ \E i \in DOMAIN pages : DropVec(i)
    \/ \E pid \in PhysPids \cup {0} : AllocRaw(pid)
    \/ \E pid \in PhysPids \cup {0}, addr \in FreeAddrs :
          phys.free_pages < MaxFreePages /\ FreeRaw(pid, addr)

BatchSpec == Init /\ [][BatchNext]_vars

(* ------------------------------------------------------------------ *)
(* Properties.  A property about what a call returns or leaves behind   *)
(* is stated over every call that can be made in the current state:     *)
(* the operation's operator is applied to State.                        *)
(* ------------------------------------------------------------------ *)
\* the handles whose slot has not been freed since they were returned
Current(x) == x.ep = epoch[x.h.index]
Stale(x) == x.ep < epoch[x.h.index]

\* C1 (BorrowSpec): no resource has an exclusive borrow together with
\* frozen_count = 0 and a non-empty shared list.
C1_BorrowExclusivity ==
    \A rid \in DOMAIN wr.resource_borrows :
        LET bs == wr.resource_borrows[rid]
        IN ~(bs.exclusive # <<>> /\ bs.frozen_count = 0 /\ bs.shared # <<>>)

\* C2 (Spec): a deferred revoke made while the resource has active borrows
\* turns the slot of h and the slots below it into PendingRevoke; and when one
\* shared borrow is all that is outstanding on a resource with pending
\* revokes, releasing it through a handle of the capability it was taken
\* through returns Ok and leaves every pending slot Free with its generation
\* incremented once.
C2_DeferredRevokeCompletes ==
    /\ \A x \in issued :
          LET h == x.h
              r == revoke_capability_deferred(State, h)
          IN (/\ fast_validate(ro, h) = "Ok"
              /\ ro[h.index].resource_id \in DOMAIN wr.resource_borrows
              /\ has_active(wr.resource_borrows[ro[h.index].resource_id]))
             => /\ r.res = "Ok"
                /\ \A i \in {h.index} \cup Descendants(wr.children_of, h.index) :
                      ro[i].state = "Live" => r.s.ro[i].state = "PendingRevoke"
    /\ \A x \in issued : \A rid \in DOMAIN wr.resource_borrows :
          LET h == x.h
              bs == wr.resource_borrows[rid]
          IN (/\ Current(x)
              /\ ro[h.index].state # "Free"
              /\ ro[h.index].resource_id = rid
              /\ wr.pending_revoke[rid] # <<>>
              /\ bs.exclusive = <<>> /\ bs.frozen_count = 0
              /\ Len(bs.shared) = 1 /\ bs.shared[1].cap = h.index)
             => LET r == release_shared(State, h, bs.shared[1].tid)
                IN /\ r.res = "Ok"
                   /\ \A i \in Range(wr.pending_revoke[rid]) :
                         /\ r.s.ro[i].state = "Free"
                         /\ r.s.ro[i].generation = wrapping_add1(ro[i].generation)

\* C3 (Spec): once a slot has gone to Free, every operation given a handle
\* returned before that transition answers InvalidHandle, also after the
\* index has been bound again, and the slot's generation differs from the
\* handle's.
C3_StaleHandleInvalid ==
    \A x \in issued :
        Stale(x) =>
            LET h == x.h
            IN /\ ro[h.index].generation # h.generation
               /\ fast_validate(ro, h) = "InvalidHandle"
               /\ revoke_capability(State, h).res = "InvalidHandle"
               /\ revoke_capability_deferred(State, h).res = "InvalidHandle"
               /\ \A tid \in Tids :
                     /\ release_shared(State, h, tid).res = "InvalidHandle"
                     /\ release_shared_frozen(State, h, tid).res = "InvalidHandle"
                     /\ release_exclusive(State, h, tid).res = "InvalidHandle"
                     /\ freeze_exclusive(State, h, tid).res = "InvalidHandle"
                     /\ unfreeze_exclusive(State, h, tid).res = "InvalidHandle"
                     /\ \A sc \in BorrowScopes :
                           /\ borrow_shared_ro(State, h, tid, sc).res = "InvalidHandle"
                           /\ borrow_shared_from_frozen(State, h, tid, sc).res
                                 = "InvalidHandle"
                           /\ borrow_exclusive(State, h, tid, sc).res = "InvalidHandle"

\* a handle of an earlier epoch whose index is bound again, with the scope
\* the handle carries: only the generation tells the two capabilities apart
C3_Witness ==
    \E x \in issued :
        /\ Stale(x)
        /\ ro[x.h.index].state = "Live"
        /\ ro[x.h.index].scope = x.h.scope

\* C4 (ConcSpec): at most one slot is Live for any (pid, rid), and the
\* handle a bind returned for (pid, rid) is a handle of that process's
\* capability for that resource: whenever it validates, the slot it names is
\* owned by pid and holds rid.
C4_OneLiveSlotPerBinding ==
    /\ \A i \in Indices, j \in Indices :
          (/\ i # j
           /\ ro[i].state = "Live" /\ ro[j].state = "Live"
           /\ ro[i].owner_pid = ro[j].owner_pid)
          => ro[i].resource_id # ro[j].resource_id
    /\ \A x \in issued :
          fast_validate(ro, x.h) = "Ok"
          => /\ ro[x.h.index].owner_pid = x.pid
             /\ ro[x.h.index].resource_id = x.rid

\* C5 (Spec): free_slots.len() + used_count = MAX_CAPABILITIES.
C5_SlotAccounting == Len(wr.free_slots) + wr.used_count = MAX_CAPABILITIES

\* C6 (Spec): after on_process_exit(pid) no slot is Live with owner pid and
\* a scope of Process, Thread or Syscall.
C6_ProcessExitCleansUp ==
    \A pid \in Pids :
        LET r == on_process_exit(State, pid)
        IN \A i \in Indices :
              ~(/\ r.s.ro[i].state = "Live"
                /\ r.s.ro[i].owner_pid = pid
                /\ r.s.ro[i].scope.k \in {"Process", "Thread", "Syscall"})

\* C7 (Spec): an index is listed in process_caps[pid], thread_caps[tid] or
\* syscall_caps[(tid, seq)] exactly when its slot is Live with that scope
\* (and, for Process, that owner).
C7_ScopeIndexExact ==
    \A i \in Indices :
        /\ \A pid \in Pids :
              i \in Range(wr.process_caps[pid])
                 <=> (ro[i].state = "Live" /\ ro[i].scope = Process
                      /\ ro[i].owner_pid = pid)
        /\ \A tid \in Tids :
              i \in Range(wr.thread_caps[tid])
                 <=> (ro[i].state = "Live" /\ ro[i].scope = Thread(tid))
        /\ \A key \in DOMAIN wr.syscall_caps :
              i \in Range(wr.syscall_caps[key])
                 <=> (ro[i].state = "Live" /\ ro[i].scope = Syscall(key[1], key[2]))

\* C8 (Spec): after a successful grant_readonly or grant_exclusive the
\* rights of the capability returned to the grantee are a subset of the
\* grantor capability's rights restricted to TRANSFERABLE_MASK.
C8_GrantAttenuates ==
    \A g \in Pids, e \in Pids, rid \in Rids :
        /\ LET c == grant_readonly_check(State, g, rid)
               r == grant_readonly(State, creation_seq, g, e, rid)
           IN r.res = "Ok" =>
                 r.s.ro[r.h.index].capabilities
                    \subseteq (ro[c.idx].capabilities \cap TRANSFERABLE_MASK)
        /\ LET c == grant_exclusive_check(State, g, rid)
               r == grant_exclusive(State, creation_seq, g, e, rid)
           IN r.res = "Ok" =>
                 r.s.ro[r.h.index].capabilities
                    \subseteq (ro[c.idx].capabilities \cap TRANSFERABLE_MASK)

\* C9 (ConcSpec): every Live slot that a grant allocated has a parent_of
\* link to a slot that is still the grantor's capability for the same
\* resource, and is listed among that slot's children.
C9_NoOrphanedGrant ==
    \A x \in issued :
        (/\ x.grantor # 0
         /\ Current(x)
         /\ fast_validate(ro, x.h) = "Ok")
        => /\ x.h.index \in DOMAIN wr.parent_of
           /\ LET p == wr.parent_of[x.h.index]
              IN /\ ro[p].state # "Free"
                 /\ ro[p].owner_pid = x.grantor
                 /\ ro[p].resource_id = x.rid
                 /\ x.h.index \in Range(wr.children_of[p])

\* no entry of a log shows a slot leaving Live above a descendant still Live
ChildrenFirst(log) ==
    \A n \in DOMAIN log : log[n].from = "Live" => log[n].live_below = {}

\* C10 (Spec): in every revocation (revoke_capability,
\* revoke_capability_deferred, transfer_resource, the scope hooks, completion
\* of pending revokes by a release) a slot leaves Live only when no slot of
\* its delegation subtree is Live any more; and after revoke_capability(root)
\* returns Ok the root and all its descendants are Free.
C10_ChildrenFirstRevocation ==
    /\ \A h \in Handles :
          /\ ChildrenFirst(revoke_capability(State, h).s.log)
          /\ ChildrenFirst(revoke_capability_deferred(State, h).s.log)
          /\ \A tid \in Tids : ChildrenFirst(release_shared(State, h, tid).s.log)
          /\ LET r == revoke_capability(State, h)
             IN r.res = "Ok" =>
                   \A i \in {h.index} \cup Descendants(wr.children_of, h.index) :
                       r.s.ro[i].state = "Free"
    /\ \A f \in Pids, to \in Pids, rid \in Rids :
          ChildrenFirst(transfer_resource(State, creation_seq, f, to, rid).s.log)
    /\ \A pid \in Pids : ChildrenFirst(on_process_exit(State, pid).s.log)
    /\ \A tid \in Tids :
          /\ ChildrenFirst(on_thread_exit(State, tid).s.log)
          /\ ChildrenFirst(on_syscall_return(State, tid, 1).s.log)

\* a root with two Live children whose strict revocation succeeds and frees
\* the three slots, the root last
C10_Witness ==
    \E h \in Handles :
        LET r == revoke_capability(State, h)
            below == Descendants(wr.children_of, h.index)
        IN /\ r.res = "Ok"
           /\ Cardinality(below) = 2
           /\ \A i \in below : ro[i].state = "Live"
           /\ Len(r.s.log) = 3
           /\ r.s.log[3].idx = h.index
           /\ \A i \in {h.index} \cup below : r.s.ro[i].state = "Free"

\* C11 (ConcSpec): children_of and parent_of agree (c is listed in
\* children_of[p] exactly when parent_of[c] = p), both ends of every edge are
\* slots that are not Free, and no children_of list is longer than
\* MAX_CHILDREN_PER_CAP.
C11_DelegationMapsAgree ==
    /\ \A p \in Indices, c \in Indices :
          c \in Range(wr.children_of[p])
             <=> (c \in DOMAIN wr.parent_of /\ wr.parent_of[c] = p)
    /\ \A c \in DOMAIN wr.parent_of :
          ro[c].state # "Free" /\ ro[wr.parent_of[c]].state # "Free"
    /\ \A p \in Indices : Len(wr.children_of[p]) <= MAX_CHILDREN_PER_CAP

\* the slots that go to Free in a log do so in strictly decreasing
\* creation_order
NewestFirst(log) ==
    \A m \in DOMAIN log, n \in DOMAIN log :
        (/\ m < n
         /\ log[m].from # "Free" /\ log[m].to = "Free"
         /\ log[n].from # "Free" /\ log[n].to = "Free")
        => log[m].creation_order > log[n].creation_order

\* C12 (Spec): within one call of on_process_exit, on_thread_exit or
\* on_syscall_return the slots that go to Free, delegation descendants
\* included, do so in strictly decreasing creation_order.
C12_HookFreesNewestFirst ==
    /\ \A pid \in Pids : NewestFirst(on_process_exit(State, pid).s.log)
    /\ \A tid \in Tids :
          /\ NewestFirst(on_thread_exit(State, tid).s.log)
          /\ NewestFirst(on_syscall_return(State, tid, 1).s.log)

\* C13 (Spec): quick_cache[(pid, rid)] lists an index exactly when its slot
\* is Live with owner pid and resource rid; it lists no PendingRevoke or Free
\* slot and no slot bound to another owner or resource.
C13_QuickCacheExact ==
    \A key \in DOMAIN wr.quick_cache : \A i \in Indices :
        i \in Range(wr.quick_cache[key])
           <=> (/\ ro[i].state = "Live"
                /\ ro[i].owner_pid = key[1]
                /\ ro[i].resource_id = key[2])

\* the containment order Syscall(t, s) <= Thread(t) <= Process <= Permanent
ScopeContained(b, o) ==
    CASE o.k = "Permanent" -> TRUE
      [] o.k = "Process" -> b.k \in {"Process", "Thread", "Syscall"}
      [] o.k = "Thread" -> b.k \in {"Thread", "Syscall"} /\ b.t = o.t
      [] o.k = "Syscall" -> b = o
      [] OTHER -> FALSE

\* C14 (ScopeSpec): can_borrow_from(B, O) answers true exactly when B is
\* contained in O; a Permanent borrow from a Process capability is refused.
C14_ScopeCheckIsContainment ==
    th.done => (th.ok <=> ScopeContained(th.self, th.owner))

\* C15 (Spec): borrow_shared_ro, borrow_shared_from_frozen and
\* borrow_exclusive, given a handle that validates and a borrow scope that is
\* not contained in the capability's scope, return PermissionDenied and leave
\* the borrow states as they were.
C15_OutOfScopeBorrowDenied ==
    \A x \in issued, tid \in Tids, sc \in ScopeUniverse :
        (/\ fast_validate(ro, x.h) = "Ok"
         /\ ~ScopeContained(sc, ro[x.h.index].scope))
        => /\ LET r == borrow_shared_ro(State, x.h, tid, sc)
              IN /\ r.res = "PermissionDenied"
                 /\ r.s.wr.resource_borrows = wr.resource_borrows
           /\ LET r == borrow_shared_from_frozen(State, x.h, tid, sc)
              IN /\ r.res = "PermissionDenied"
                 /\ r.s.wr.resource_borrows = wr.resource_borrows
           /\ LET r == borrow_exclusive(State, x.h, tid, sc)
              IN /\ r.res = "PermissionDenied"
                 /\ r.s.wr.resource_borrows = wr.resource_borrows

\* C16 (Spec): when `from` holds a Live capability for rid with TRANSFER and
\* the resource has no active borrow, transfer_resource(from, to, rid) with
\* to # from returns Ok; afterwards verify_capability(from, rid, READ) is
\* false, every capability granted from the source has been freed, and
\* verify_capability(to, rid, WRITE|MAP) is true when the source held
\* WRITE|MAP.
C16_TransferMovesAuthority ==
    \A f \in Pids, to \in Pids, rid \in Rids :
        LET c == find_with_right(State, f, rid, TRANSFER)
            r == transfer_resource(State, creation_seq, f, to, rid)
        IN (/\ to # f
            /\ c.res = "Ok"
            /\ ~(rid \in DOMAIN wr.resource_borrows
                   /\ has_active(wr.resource_borrows[rid])))
           => /\ r.res = "Ok"
              /\ ~verify_capability(r.s, f, rid, {READ})
              /\ \A d \in Descendants(wr.children_of, c.idx) :
                    FreesOf(r.s.log, d) >= 1
              /\ {WRITE, MAP} \subseteq ro[c.idx].capabilities
                    => verify_capability(r.s, to, rid, {WRITE, MAP})

\* C17 (TransferSpec): after transfer_resource(from, to, rid) returns Ok,
\* `to` holds a Live capability for rid whose rights are among the source
\* capability's rights restricted to TRANSFERABLE_MASK.
C17_TransferKeepsWithinSource ==
    \A f \in TransferPids, to \in TransferPids, rid \in Rids :
        LET c == find_with_right(State, f, rid, TRANSFER)
            r == transfer_resource(State, creation_seq, f, to, rid)
            list == r.s.wr.quick_cache[<<to, rid>>]
            n == first_live(r.s.ro, list, to, rid)
        IN r.res = "Ok"
           => /\ n # 0
              /\ r.s.ro[list[n]].capabilities
                    \subseteq (ro[c.idx].capabilities \cap TRANSFERABLE_MASK)

\* the answer r = [s, res, h] of a bind for (pid, rid) is followed by a true
\* verify_capability_fast for the rights of the capability it returned
VerifiesAfterBind(r, pid, rid) ==
    r.res = "Ok" =>
        verify_capability_fast(r.s, pid, rid, r.s.ro[r.h.index].capabilities)

\* C18 (CacheSpec): right after a bind_resource_* call for (pid, rid)
\* returned Ok, whether it allocated a slot or returned the existing one,
\* verify_capability_fast(pid, rid, r) is true for the rights r of the
\* capability; right after a strict revoke_capability of a capability of
\* (pid, rid) returned Ok, verify_capability_fast(pid, rid, r) is false for
\* every r.
C18_FastVerifyFollowsBindAndRevoke ==
    /\ \A pid \in CachePids, rid \in AllRids :
          /\ VerifiesAfterBind(bind_resource_readonly(State, pid, rid, creation_seq),
                               pid, rid)
          /\ VerifiesAfterBind(bind_resource_exclusive(State, pid, rid, creation_seq),
                               pid, rid)
          /\ \A c \in ScopedChoices :
                VerifiesAfterBind(
                    bind_resource_scoped(State, pid, rid, c.caps, c.scope, creation_seq),
                    pid, rid)
    /\ \A x \in issued :
          LET r == revoke_capability(State, x.h)
          IN r.res = "Ok" => ~verify_capability_fast(r.s, x.pid, x.rid, {})

\* C19 (VerifySpec): a verify_capability_fast(pid, rid, required) that is
\* about to read the entry and answer true has seen, at some instant since
\* its lookup, a slot that was Live with owner pid, resource rid and the
\* required rights; a cached slot that was freed and bound to another owner
\* in between counts as a miss.
C19_FastVerifyNeverVouchesForStranger ==
    \A t \in DOMAIN th :
        th[t].op = "verify_capability_fast"
           => (verify_read(ro, th[t]) => th[t].held)

\* C20 (LockSpec): a thread requests WR_DATA only while it holds no guard of
\* RO_DATA, requests RO_DATA.write only while it holds no read guard and
\* holds WR_DATA, returns holding nothing, and whenever calls are in
\* progress one of them can take its next step (no deadlock on the two
\* locks).
C20_LockOrder ==
    /\ \A t \in DOMAIN th :
          LET g == th[t].guards
          IN IF th[t].rest = <<>> THEN g = NoGuards
             ELSE /\ Head(th[t].rest) = "WR.lock" => (g.rd = 0 /\ g.wt = 0)
                  /\ Head(th[t].rest) = "RO.write" => (g.rd = 0 /\ g.wr = 1)
    /\ DOMAIN th # {} =>
          \E t \in DOMAIN th : th[t].rest = <<>> \/ Available(Head(th[t].rest))

\* one thread holds WR_DATA and the write guard while the other waits for
\* WR_DATA, or for a read guard on its lock-free path
C20_Witness ==
    \E t \in DOMAIN th, u \in DOMAIN th :
        /\ th[t].guards.wr = 1 /\ th[t].guards.wt = 1
        /\ th[u].rest # <<>>
        /\ Head(th[u].rest) \in {"WR.lock", "RO.read"}
        /\ ~Available(Head(th[u].rest))


\* C21 (RaceSpec): the region under WR_DATA of a borrow, release, freeze or
\* unfreeze changes a borrow state only when the slot of its handle is, at
\* that moment, Live with the handle's generation and scope.
C21_BorrowRevalidatesUnderLock ==
    [][\A t \in DOMAIN th :
          (/\ th[t].pc = "locked"
           /\ t \notin DOMAIN th'
           /\ wr'.resource_borrows # wr.resource_borrows)
          => fast_validate(ro, th[t].h) = "Ok"]_vars

\* the number of slots a call with log `log` moved to Free
FreedIn(log) ==
    Cardinality({n \in DOMAIN log : log[n].from # "Free" /\ log[n].to = "Free"})

\* C22 (Spec): what on_process_exit, on_thread_exit and on_syscall_return
\* return is the number of slots that became Free during the call, the
\* delegation descendants freed by the DFS included.
C22_HookCountsFreedSlots ==
    /\ \A pid \in Pids :
          LET r == on_process_exit(State, pid) IN r.count = FreedIn(r.s.log)
    /\ \A tid \in Tids :
          LET r == on_thread_exit(State, tid) IN r.count = FreedIn(r.s.log)
    /\ \A tid \in Tids :
          LET r == on_syscall_return(State, tid, 1) IN r.count = FreedIn(r.s.log)

\* the page index of an address of the region
PageIndex(addr) == (addr - phys.base) \div PAGE_SIZE

\* the allocations handed out and not given back
Outstanding == {n \in DOMAIN pages : ~pages[n].freed}
\* page i is marked allocated in the bitmap of allocator a
BitSet(a, i) == (i % WORD_BITS) \in a.bitmap[i \div WORD_BITS]

FreeRefused(pid, addr) ==
    \/ addr < phys.base
    \/ PageIndex(addr) >= phys.total_pages
    \/ phys.owners[PageIndex(addr)] # pid

\* C30 (AllocSpec): free_raw(pid, addr) returns an error and leaves the
\* bitmap, the owners and free_pages as they are when addr is below the base,
\* its page index is at or beyond total_pages, or the stored owner is not
\* pid; otherwise it returns Ok, sets the page's owner to 0, clears its bit,
\* adds one to free_pages and changes nothing else.
C30_FreeChecksThenReleases ==
    \A pid \in PhysPids \cup {0}, addr \in FreeAddrs :
        LET r == free_raw(phys, pid, addr)
            i == PageIndex(addr)
        IN IF FreeRefused(pid, addr)
           THEN r.res # "Ok" /\ r.phys = phys
           ELSE /\ r.res = "Ok"
                /\ r.phys.owners = [phys.owners EXCEPT ![i] = 0]
                /\ ~BitSet(r.phys, i)
                /\ \A k \in 0 .. (MAX_PAGES - 1) :
                      k # i => (BitSet(r.phys, k) <=> BitSet(phys, k))
                /\ r.phys.free_pages = phys.free_pages + 1
                /\ r.phys.base = phys.base /\ r.phys.total_pages = phys.total_pages

\* C30 witness: page 0 is held by process 1 and page 1 by process 2, so
\* free_raw(1, base) releases the page, free_raw(1, base + PAGE_SIZE) is
\* refused for the owner, and the calls with an address below the base and
\* beyond total_pages are refused.
C30_Witness ==
    /\ phys.owners[0] = 1 /\ phys.owners[1] = 2
    /\ free_raw(phys, 1, PhysBase).res = "Ok"
    /\ free_raw(phys, 1, PhysBase + PAGE_SIZE).res = "Permission denied"
    /\ free_raw(phys, 1, 0).res = "Invalid address"
    /\ free_raw(phys, 1, PhysBase + TotalPages * PAGE_SIZE).res = "Page index out of range"

\* the borrow state of the page at addr in s
PageBorrows(s, addr) ==
    IF from_page_addr(addr) \in DOMAIN s.wr.resource_borrows
    THEN s.wr.resource_borrows[from_page_addr(addr)]
    ELSE ResourceBorrowState_new

\* the pages of vector v are the pages v.pid owns: their handles are valid,
\* no other slot is held by v.pid, and none of them is borrowed
OwnsIdle(v) ==
    /\ \A k \in DOMAIN v.elems :
          /\ fast_validate(ro, v.elems[k].handle) = "Ok"
          /\ ~has_active(PageBorrows(PageState, v.elems[k].addr))
    /\ \A i \in Indices :
          (ro[i].state # "Free" /\ ro[i].owner_pid = v.pid)
              => \E k \in DOMAIN v.elems : v.elems[k].handle.index = i

\* C23 (PageSpec): when the n pages of a PageVec are the pages process pid
\* owns and none is borrowed, on_process_exit(pid) returns n, leaves
\* free_pages n higher than it found it, and verify_capability_fast is false
\* afterwards for each of these pages.
C23_ProcessExitReturnsPages ==
    \A i \in DOMAIN pages :
        (pages[i].kind = "PageVec" /\ OwnsIdle(pages[i]))
        => LET v == pages[i]
               r == on_process_exit(PageState, v.pid)
           IN /\ r.count = Len(v.elems)
              /\ r.s.phys.free_pages = phys.free_pages + Len(v.elems)
              /\ \A k \in DOMAIN v.elems :
                    ~verify_capability_fast(r.s, v.pid,
                                            from_page_addr(v.elems[k].addr), {READ})

\* Syscall::alloc_page(pid) in the current state, and the drop of its page
AllocThenDrop(pid) ==
    LET a == OwnedPage_alloc(PageState, pid, creation_seq)
    IN [a |-> a, d |-> OwnedPage_drop(a.s, a.page)]

\* C24 (PageSpec): in a state with a free page and a free slot, dropping the
\* OwnedPage Syscall::alloc_page(pid) returned leaves free_pages as it was
\* before the allocation, the page's slot Free, and the page's handle
\* refused by validation with InvalidHandle.
C24_AllocDropRoundTrip ==
    \A pid \in PagePids :
        (/\ phys.free_pages > 0
         /\ wr.free_slots # <<>>
         /\ AllocThenDrop(pid).a.res = "Ok")
        => LET x == AllocThenDrop(pid)
           IN /\ x.d.phys.free_pages = phys.free_pages
              /\ x.d.ro[x.a.page.handle.index].state = "Free"
              /\ fast_validate(x.d.ro, x.a.page.handle) = "InvalidHandle"

\* OwnedPage::alloc(pid) in the current state, then revoke_now or
\* revoke_deferred of the page
AllocThenRevoke(pid, deferred) ==
    LET a == OwnedPage_alloc(PageState, pid, creation_seq)
    IN [a |-> a,
        r |-> IF deferred THEN OwnedPage_revoke_deferred(a.s, a.page)
              ELSE OwnedPage_revoke_now(a.s, a.page)]

\* C25 (PageSpec): after OwnedPage::alloc(pid) and a revoke_now() that
\* answered Ok, or a revoke_deferred() that answered Ok and whose slot has
\* left PendingRevoke, the slot is Free and free_pages has the value it had
\* before the allocation.
C25_BindRevokeRoundTrip ==
    \A pid \in PagePids, deferred \in BOOLEAN :
        LET x == AllocThenRevoke(pid, deferred)
        IN (/\ x.a.res = "Ok"
            /\ x.r.res = "Ok"
            /\ x.r.s.ro[x.a.page.handle.index].state # "PendingRevoke")
           => /\ x.r.s.ro[x.a.page.handle.index].state = "Free"
              /\ x.r.s.phys.free_pages = phys.free_pages

\* BorrowedPageRW::borrow_mut(page, tid, scope) in the current state, and
\* the drop of the BorrowedPageRW it returned
BorrowMutThenDrop(page, tid, scope) ==
    LET r == BorrowedPageRW_borrow_mut(PageState, page, tid, scope)
    IN [r |-> r, d |-> BorrowedPageRW_drop(r.s, r.b)]

\* C26 (PageSpec): whatever scope borrow_mut accepted, after the drop of
\* the BorrowedPageRW the page's resource has no exclusive borrow and a
\* strict revoke of the page's capability does not answer BorrowConflict.
C26_DropReleasesExclusive ==
    \A i \in DOMAIN pages, scope \in PageScopes :
        (/\ IsPage(i) /\ BorrowsOf(i) = {}
         /\ BorrowMutThenDrop(pages[i], 7, scope).r.res = "Ok")
        => LET x == BorrowMutThenDrop(pages[i], 7, scope)
           IN /\ PageBorrows(x.d, pages[i].addr).exclusive = <<>>
              /\ revoke_capability(x.d, pages[i].handle).res # "BorrowConflict"

\* a BorrowedPageRO made in the current state by OwnedPage::as_readonly or
\* by BorrowedPageRO::borrow with scope Process, and its drop
ReadonlyThenDrop(page, tid, explicit) ==
    LET r == IF explicit THEN BorrowedPageRO_borrow(PageState, page, tid, Process)
             ELSE OwnedPage_as_readonly(PageState, page, tid)
    IN [r |-> r, d |-> BorrowedPageRO_drop(r.s, r.b)]

\* C27 (PageSpec): after a BorrowedPageRO was made by as_readonly or by
\* BorrowedPageRO::borrow and dropped, the borrow state of the page is the
\* one before (the same shared entries, the same frozen_count), and the
\* release_exclusive of the exclusive holder is not refused with StillFrozen.
C27_ReadonlyDropRestores ==
    \A i \in DOMAIN pages, explicit \in BOOLEAN :
        (/\ IsPage(i) /\ MutBorrowsOf(i) = {}
         /\ ReadonlyThenDrop(pages[i], 7, explicit).r.res = "Ok")
        => LET x == ReadonlyThenDrop(pages[i], 7, explicit)
           IN /\ PageBorrows(x.d, pages[i].addr) = PageBorrows(PageState, pages[i].addr)
              /\ release_exclusive(x.d, pages[i].handle, 7).res # "StillFrozen"

\* C28 (SharedSpec): of the drops of the references of one SharedPage at
\* most one revokes the capability and frees the page, it is the last one
\* (no reference is held or being dropped besides it), and once every
\* reference is dropped one of the drops has done so.
C28_LastDropFrees ==
    \A j \in DOMAIN pages :
        /\ pages[j].freed <= 1
        /\ pages[j].freed = 1 => (pages[j].held = 0 /\ pages[j].strong <= 1)
        /\ pages[j].strong = 0 => pages[j].freed = 1

\* The transition table of the borrow state machine, for a request q made
\* in state q.before = (shared, exclusive, frozen_count).
TableHolder(q) ==
    /\ q.before.exclusive # <<>>
    /\ q.before.exclusive[1].cap = q.cap
    /\ q.before.exclusive[1].tid = q.tid
TableEntry(q) ==
    \E i \in DOMAIN q.before.shared : q.before.shared[i] = BorrowEntry(q.cap, q.tid)
TableRequired(rty) ==
    IF rty \in {"PhysicalPage", "VirtualMemory"} THEN {WRITE, MAP} ELSE {WRITE}
\* a shared request meets an exclusive borrow that is not frozen or is held
\* by another thread
TableConflict(q) ==
    /\ q.before.exclusive # <<>>
    /\ (q.before.frozen_count = 0 \/ q.before.exclusive[1].tid # q.tid)

TablePre(q) ==
    CASE q.op = "try_shared" ->
            /\ READ \in q.caps
            /\ ~TableConflict(q)
            /\ ~TableEntry(q)
            /\ Len(q.before.shared) < U16_MAX
      [] q.op = "try_exclusive" ->
            /\ TableRequired(q.rty) \subseteq q.caps
            /\ q.before.shared = <<>>
            /\ q.before.exclusive = <<>>
            /\ q.before.frozen_count = 0
      [] q.op = "release_shared" -> TableEntry(q)
      [] q.op = "release_exclusive" -> TableHolder(q) /\ q.before.frozen_count = 0
      [] q.op = "freeze" -> TableHolder(q)
      [] q.op = "unfreeze" -> TableHolder(q) /\ q.before.frozen_count > 0

\* the state `after` is q.before with the effect the table lists; frozen is
\* the frozen_count a freeze leaves
TableEffect(q, after, frozen) ==
    CASE q.op = "try_shared" ->
            after = [q.before EXCEPT !.shared = Append(@, BorrowEntry(q.cap, q.tid))]
      [] q.op = "try_exclusive" ->
            after = [q.before EXCEPT
                        !.exclusive = <<ExclusiveEntry(q.cap, q.tid, q.scope)>>]
      [] q.op = "release_shared" ->
            /\ after.exclusive = q.before.exclusive
            /\ after.frozen_count = q.before.frozen_count
            /\ Len(after.shared) = Len(q.before.shared) - 1
            /\ {after.shared[i] : i \in DOMAIN after.shared}
                  = {q.before.shared[i] : i \in DOMAIN q.before.shared}
                       \ {BorrowEntry(q.cap, q.tid)}
      [] q.op = "release_exclusive" -> after = [q.before EXCEPT !.exclusive = <<>>]
      [] q.op = "freeze" -> after = [q.before EXCEPT !.frozen_count = frozen]
      [] q.op = "unfreeze" -> after = [q.before EXCEPT !.frozen_count = @ - 1]

\* the error of a request whose precondition fails
TableError(q) ==
    CASE q.op = "try_shared" ->
            IF READ \notin q.caps THEN "PermissionDenied"
            ELSE IF TableConflict(q) THEN "BorrowConflict"
            ELSE IF TableEntry(q) THEN "AlreadyBorrowed"
            ELSE "TooManyBorrows"
      [] q.op = "try_exclusive" ->
            IF ~(TableRequired(q.rty) \subseteq q.caps) THEN "PermissionDenied"
            ELSE "BorrowConflict"
      [] q.op = "release_shared" -> "NotBorrowed"
      [] q.op = "release_exclusive" ->
            IF TableHolder(q) THEN "StillFrozen" ELSE "NotBorrowed"
      [] q.op = "freeze" -> "NotBorrowed"
      [] q.op = "unfreeze" ->
            IF TableHolder(q) THEN "NotFrozen" ELSE "NotBorrowed"

TableRefined(q, after, frozen) ==
    IF TablePre(q) THEN q.res = "Ok" /\ TableEffect(q, after, frozen)
    ELSE q.res = TableError(q) /\ after = q.before

\* C31 (TableSpec), as stated: every request succeeds exactly when the
\* precondition of its row of the table holds, then leaves exactly the
\* listed effect (a freeze raises frozen_count by one), and otherwise
\* answers the row's error and leaves the state unchanged.
C31_TableRefinement ==
    th.last.op # ""
        => TableRefined(th.last, th.bs, th.last.before.frozen_count + 1)

\* The table with the freeze row read as a saturating increment: a freeze
\* raises frozen_count by one only below the largest u32 and leaves it
\* there otherwise (it still answers Ok).
TableRefinementSaturating ==
    th.last.op # ""
        => TableRefined(th.last, th.bs,
                        IF th.last.before.frozen_count < U32_MAX
                        THEN th.last.before.frozen_count + 1 ELSE U32_MAX)

\* the pages below total_pages whose bit is clear in allocator a
ClearPages(a) == {i \in 0 .. (a.total_pages - 1) : ~BitSet(a, i)}

\* C32 (BatchSpec): Allocator::alloc_pages(count) of a process answers
\* InvalidSize and allocates nothing for count = 0; for count >= 1 it
\* answers either a vector of exactly count distinct pages, each with the
\* process as its owner and its bit set, or OutOfMemory with free_pages
\* and the clear pages as they were before the call.
C32_AllocPagesAllOrNothing ==
    \A pid \in PhysPids \cup {0}, count \in 0 .. BatchMaxCount :
        LET r == Allocator_alloc_pages(phys, pid, count)
        IN IF count = 0 THEN r.res = "InvalidSize" /\ r.phys = phys /\ r.vec = <<>>
           ELSE \/ /\ r.res = "Ok"
                   /\ Len(r.vec) = count
                   /\ \A k \in DOMAIN r.vec :
                         /\ r.vec[k].pid = pid
                         /\ (r.vec[k].addr - phys.base) \div PAGE_SIZE \in ClearPages(phys)
                         /\ r.phys.owners[(r.vec[k].addr - phys.base) \div PAGE_SIZE] = pid
                         /\ BitSet(r.phys, (r.vec[k].addr - phys.base) \div PAGE_SIZE)
                         /\ \A m \in DOMAIN r.vec : m # k => r.vec[m].addr # r.vec[k].addr
                   /\ r.phys.free_pages = phys.free_pages - count
                \/ /\ r.res = "OutOfMemory"
                   /\ r.vec = <<>>
                   /\ r.phys.free_pages = phys.free_pages
                   /\ ClearPages(r.phys) = ClearPages(phys)

\* C32 witness: an allocation has run off the end of the region before (the
\* bit of the first page beyond it is set), one page is taken and a vector
\* is alive; a call for two pages takes the two that are left, a call for
\* three takes them and gives them back
C32_Witness ==
    /\ BitSet(phys, phys.total_pages)
    /\ Cardinality(ClearPages(phys)) = 2
    /\ pages # <<>>
    /\ Allocator_alloc_pages(phys, 1, 2).res = "Ok"
    /\ Allocator_alloc_pages(phys, 1, 3).res = "OutOfMemory"

\* no element occurs twice in the list q
NoRepeat(q) == \A i \in DOMAIN q : \A j \in DOMAIN q : q[i] = q[j] => i = j

\* C33 (Spec): no index occurs twice in free_slots, every index of
\* free_slots is a Free slot, and no index occurs twice in a pending_revoke
\* list.
C33_SlotsFreedOnce ==
    /\ NoRepeat(wr.free_slots)
    /\ \A i \in DOMAIN wr.free_slots : ro[wr.free_slots[i]].state = "Free"
    /\ \A rid \in DOMAIN wr.pending_revoke : NoRepeat(wr.pending_revoke[rid])

\* the table is the same in s as in the current state: every slot,
\* quick_cache, the scope indices, the delegation maps, free_slots,
\* used_count and the rest of WR_DATA
TableUntouched(s) == s.ro = ro /\ s.wr = wr

\* C34 (StaleSpec): a strict revocation that returns BorrowConflict, from
\* revoke_capability(h) or from transfer_resource, leaves every slot and all
\* of WR_DATA as they were before the call (stated for the tables on which
\* the walk of the delegation graph ends: those without a cycle).
C34_FailedStrictRevokeChangesNothing ==
    (\A i \in Indices : ~Cyclic(wr.children_of, i)) =>
        /\ \A h \in Handles :
              LET r == revoke_capability(State, h)
              IN r.res = "BorrowConflict" => TableUntouched(r.s)
        /\ \A from_pid \in Pids : \A rid \in StaleRids :
              LET r == transfer_revoke(State, from_pid, rid)
              IN r.res = "BorrowConflict" => TableUntouched(r.s)

\* the slots that pid owns with Process scope now
ProcessOwned(pid) ==
    {i \in Indices : /\ ro[i].state # "Free"
                      /\ ro[i].owner_pid = pid
                      /\ ro[i].scope = Process}

\* those slots and their delegation descendants
ProcessSubtree(pid) ==
    UNION {{i} \cup Descendants(wr.children_of, i) : i \in ProcessOwned(pid)}

\* C36 (Spec): on_process_exit(pid) frees only slots that pid owns with
\* Process scope at the time of the call, and their delegation descendants.
C36_ProcessExitFreesOwnSlots ==
    \A pid \in Pids :
        LET r == on_process_exit(State, pid)
        IN \A i \in Indices :
              (ro[i].state # "Free" /\ r.s.ro[i].state = "Free")
                 => i \in ProcessSubtree(pid)

\* the call returned a handle of a Live slot with READ, WRITE and MAP
ExclusiveRights(r) ==
    r.res = "Ok" =>
        /\ r.s.ro[r.h.index].state = "Live"
        /\ r.s.ro[r.h.index].generation = r.h.generation
        /\ (RW \cup {MAP}) \subseteq r.s.ro[r.h.index].capabilities

\* C37 (Spec): every handle returned by bind_resource_exclusive or
\* grant_exclusive names a Live slot whose rights include READ, WRITE and
\* MAP, whatever the process held before the call.
C37_ExclusiveHandleHasRights ==
    \A pid \in Pids : \A rid \in Rids :
        /\ ExclusiveRights(bind_resource_exclusive(State, pid, rid, creation_seq))
        /\ \A g \in Pids :
              ExclusiveRights(grant_exclusive(State, creation_seq, g, pid, rid))

\* the page at addr is free in the physical allocator
PageFree(a, addr) == ~BitSet(a, (addr - a.base) \div PAGE_SIZE)

\* C38 (PageSpec): no Live or PendingRevoke slot names a PhysicalPage
\* resource whose page is free in the physical allocator.
C38_NoCapabilityOfFreePage ==
    \A i \in Indices :
        (/\ ro[i].state \in {"Live", "PendingRevoke"}
         /\ ro[i].resource_id \in PageRids)
        => ~PageFree(phys, ro[i].resource_id.id)

\* C39 (OwnerSpec): no two living objects whose destructor frees a page (an
\* OwnedPage, a SharedPage) hold the same address, so that each allocated
\* page is freed at most once.
C39_OneOwnerPerPage ==
    \A i \in DOMAIN pages : \A j \in DOMAIN pages :
        (Frees(i) /\ Frees(j) /\ pages[i].addr = pages[j].addr) => i = j

\* C40 (AllocSpec): between calls free_pages is the number of pages below
\* total_pages whose bitmap bit is clear, and is at most total_pages.
C40_FreePagesCountsClearBits ==
    /\ phys.free_pages = Cardinality(ClearPages(phys))
    /\ phys.free_pages <= phys.total_pages

\* the call that returned r left no Live slot of grantee_pid that was not
\* there before, and free_slots, used_count, quick_cache, the scope indices
\* and the per-CPU cache as they were
GrantLeavesNoTrace(r, grantee_pid) ==
    /\ \A idx \in Indices :
          (r.s.ro[idx].state = "Live" /\ r.s.ro[idx].owner_pid = grantee_pid)
             => r.s.ro[idx] = ro[idx]
    /\ r.s.wr.free_slots = wr.free_slots
    /\ r.s.wr.used_count = wr.used_count
    /\ r.s.wr.quick_cache = wr.quick_cache
    /\ r.s.wr.process_caps = wr.process_caps
    /\ r.s.wr.thread_caps = wr.thread_caps
    /\ r.s.wr.syscall_caps = wr.syscall_caps
    /\ r.s.pc = pcache

\* C35 (GrantSpec): a grant_readonly or grant_exclusive that returns
\* TooManyChildren leaves no new Live slot for the grantee and leaves
\* free_slots, used_count, quick_cache, the scope indices and the per-CPU
\* cache as before the call.
C35_FailedGrantLeavesNoTrace ==
    \A g \in Pids : \A e \in Pids : \A rid \in Rids :
        /\ LET r == grant_readonly(State, creation_seq, g, e, rid)
           IN r.res = "TooManyChildren" => GrantLeavesNoTrace(r, e)
        /\ LET r == grant_exclusive(State, creation_seq, g, e, rid)
           IN r.res = "TooManyChildren" => GrantLeavesNoTrace(r, e)
====
